---- MODULE Spec2Model ----
(***************************************************************************)
(* Model of world-rs: icosphere construction (polyhedron.rs), tectonic     *)
(* plate partitioning (plate_simulation.rs) and ray picking                *)
(* (collisions.rs).                                                        *)
(*                                                                         *)
(* f32 values are modelled as fixed-point integers: the integer n stands   *)
(* for the real number n / Scale.  Every product and quotient is rounded   *)
(* to the nearest representable value, as an IEEE operation is.  Vec<T>    *)
(* is a sequence; the program's 0-based indices are kept as they are and   *)
(* At(s, i) reads element i.                                               *)
(***************************************************************************)
EXTENDS Integers, Sequences, FiniteSets, TLC

\* ------------------------------------------------------------------ bounds
Scale == 4096            \* fixed-point denominator of the f32 model
MaxDetail == 2           \* largest detail_level given to make_sphere
PlateDetail == 1         \* largest detail level of the mesh given to PlateSimulation::new
MaxSeedings == 2000      \* with a free generator: at most this many seed sequences per input
PickDetail == 0          \* largest detail level of the mesh given to intersecting_triangle_id
MaxEyeScale == 3         \* the eye is at most this many times as far out as a face's centroid
SimDetail == 0           \* largest detail level of the mesh that is simulated
MaxSimPlates == 3        \* largest plate count of a simulated mesh
MaxSteps == 2            \* largest `steps` given to simulate_plates
FineUnit == 1000000      \* denominator of the coordinates given to VecWrapper::cmp alone
FineStep == 6            \* spacing of those coordinates, in 1 / FineUnit
MaxFineSteps == 3        \* largest such coordinate, in steps
MaxCameraUpdates == 100  \* most calls of Camera::update in a run
MaxGameTime == 1         \* GameState::update is called until its dt add up to this many seconds
MaxTextLen == 33         \* longest seed text, in bytes

\* -------------------------------------------------------------- arithmetic
Abs(a) == IF a < 0 THEN -a ELSE a
Sign(a) == IF a < 0 THEN -1 ELSE IF a > 0 THEN 1 ELSE 0
Max(a, b) == IF a >= b THEN a ELSE b

\* a / b rounded to the nearest integer, halves away from zero
RDiv(a, b) == Sign(a) * Sign(b) * ((2 * Abs(a) + Abs(b)) \div (2 * Abs(b)))

FMul(a, b) == RDiv(a * b, Scale)
FDiv(a, b) == RDiv(a * Scale, b)

\* the value of a one-element set: with {e(x) : x \in {v}} it binds x to the
\* value of v once, as a `let` of the source does
The(S) == CHOOSE x \in S : TRUE

RECURSIVE ISqrtBetween(_, _, _)
ISqrtBetween(n, lo, hi) ==
    IF lo >= hi THEN lo
    ELSE The({IF mid * mid <= n THEN ISqrtBetween(n, mid, hi)
                                ELSE ISqrtBetween(n, lo, mid - 1) :
              mid \in {(lo + hi + 1) \div 2}})

\* integer square root rounded to nearest; 46340^2 is the largest square below 2^31
ISqrt(n) ==
    The({The({IF v - r * r > r THEN r + 1 ELSE r : r \in {ISqrtBetween(v, 0, 46340)}}) :
         v \in {n}})

FSqrt(a) == ISqrt(a * Scale)

At(s, i) == s[i + 1]

\* TRUE for every sequence.  A loop written as a recursive operator tests it on
\* the value of one iteration before starting the next, so that TLC evaluates
\* the iterations one after the other instead of nesting them.
Done(s) == Len(s) >= 0

\* ------------------------------------------------------- cgmath::Vector3
Vector3(x, y, z) == <<x, y, z>>
add(a, b) == <<a[1] + b[1], a[2] + b[2], a[3] + b[3]>>
sub(a, b) == <<a[1] - b[1], a[2] - b[2], a[3] - b[3]>>
neg(a) == <<-a[1], -a[2], -a[3]>>
dot(a, b) == FMul(a[1], b[1]) + FMul(a[2], b[2]) + FMul(a[3], b[3])
mul_s(a, s) == <<FMul(a[1], s), FMul(a[2], s), FMul(a[3], s)>>
length(a) == FSqrt(dot(a, a))
normalize(a) ==
    The({<<FDiv(v[1], l), FDiv(v[2], l), FDiv(v[3], l)>> : <<v, l>> \in {<<a, length(a)>>}})

\* ---------------------------------------------------------- polyhedron.rs
PolyVertex_from_vec(pos) == [pos |-> pos, edge_indices |-> <<>>, face_indices |-> <<>>]
PolyVertex_from_xyz(x, y, z) == PolyVertex_from_vec(Vector3(x, y, z))
PolyVertex_new == PolyVertex_from_xyz(0, 0, 0)

Edge_new(a_idx, b_idx) == [vertex_indices |-> <<a_idx, b_idx>>, face_indices |-> <<>>]

Face_new(a_vert_idx, b_vert_idx, c_vert_idx, a_edge_idx, b_edge_idx, c_edge_idx) ==
    [vertex_indices |-> <<a_vert_idx, b_vert_idx, c_vert_idx>>,
     edge_indices |-> <<a_edge_idx, b_edge_idx, c_edge_idx>>]

Polyhedron_new == [vertices |-> <<>>, edges |-> <<>>, faces |-> <<>>]

\* mutant: every index of idxs is pushed to the list of the first one
RECURSIVE PushEach_to_first(_, _, _, _, _)
PushEach_to_first(items, field, idxs, j, i) ==
    IF j > Len(idxs) THEN items
    ELSE LET t == idxs[1] + 1
             pushed == [items EXCEPT ![t] = [@ EXCEPT ![field] = Append(@, i)]]
         IN  IF Done(pushed) THEN PushEach_to_first(pushed, field, idxs, j + 1, i) ELSE items

\* vertices[vert_idx].<field>.push(i) for every vert_idx of `idxs`, in order
RECURSIVE PushEach(_, _, _, _, _)
PushEach(items, field, idxs, j, i) ==
    IF j > Len(idxs) THEN items
    ELSE LET t == idxs[j] + 1
             pushed == [items EXCEPT ![t] = [@ EXCEPT ![field] = Append(@, i)]]
         IN  IF Done(pushed) THEN PushEach(pushed, field, idxs, j + 1, i) ELSE items

\* for i in range(lo, hi): vertices[v].edge_indices.push(i) for both endpoints v
\* of edge i.  The range is split in halves to keep the evaluation shallow; the
\* iterations still run in index order.
RECURSIVE LinkEdges(_, _, _, _)
LinkEdges(vertices, edges, lo, hi) ==
    IF hi <= lo THEN vertices
    ELSE IF hi = lo + 1
         THEN PushEach(vertices, "edge_indices", At(edges, lo).vertex_indices, 1, lo)
    ELSE LET mid == (lo + hi) \div 2
             first == LinkEdges(vertices, edges, lo, mid)
         IN  IF Done(first) THEN LinkEdges(first, edges, mid, hi) ELSE vertices

\* for i in range(lo, hi): face i is pushed to its three vertices and its three edges
RECURSIVE LinkFaces(_, _, _, _)
LinkFaces(poly, faces, lo, hi) ==
    IF hi <= lo THEN poly
    ELSE IF hi = lo + 1
         THEN [poly EXCEPT
                 !.vertices = PushEach(@, "face_indices", At(faces, lo).vertex_indices, 1, lo),
                 !.edges = PushEach(@, "face_indices", At(faces, lo).edge_indices, 1, lo)]
    ELSE LET mid == (lo + hi) \div 2
             first == LinkFaces(poly, faces, lo, mid)
         IN  IF Done(first.vertices) THEN LinkFaces(first, faces, mid, hi) ELSE poly

\* the two adjacency loops that end make_icosahedron and refine
link_adjacency(vertices, edges, faces) ==
    LinkFaces([vertices |-> LinkEdges(vertices, edges, 0, Len(edges)),
               edges |-> edges, faces |-> faces],
              faces, 0, Len(faces))

phi == FDiv(Scale + FSqrt(5 * Scale), 2 * Scale)
du == FDiv(Scale, FSqrt(FMul(phi, phi) + Scale))
dv == FMul(phi, du)

IcoVertices ==
    << PolyVertex_from_xyz(0, dv, du),  PolyVertex_from_xyz(0, dv, -du),
       PolyVertex_from_xyz(0, -dv, du), PolyVertex_from_xyz(0, -dv, -du),
       PolyVertex_from_xyz(du, 0, dv),  PolyVertex_from_xyz(-du, 0, dv),
       PolyVertex_from_xyz(du, 0, -dv), PolyVertex_from_xyz(-du, 0, -dv),
       PolyVertex_from_xyz(dv, du, 0),  PolyVertex_from_xyz(dv, -du, 0),
       PolyVertex_from_xyz(-dv, du, 0), PolyVertex_from_xyz(-dv, -du, 0) >>

IcoEdges ==
    << Edge_new(0, 1), Edge_new(0, 4), Edge_new(0, 5), Edge_new(0, 8), Edge_new(0, 10),
       Edge_new(1, 6), Edge_new(1, 7), Edge_new(1, 8), Edge_new(1, 10), Edge_new(2, 3),
       Edge_new(2, 4), Edge_new(2, 5), Edge_new(2, 9), Edge_new(2, 11), Edge_new(3, 6),
       Edge_new(3, 7), Edge_new(3, 9), Edge_new(3, 11), Edge_new(4, 5), Edge_new(4, 8),
       Edge_new(4, 9), Edge_new(5, 10), Edge_new(5, 11), Edge_new(6, 7), Edge_new(6, 8),
       Edge_new(6, 9), Edge_new(7, 10), Edge_new(7, 11), Edge_new(8, 9), Edge_new(10, 11) >>

IcoFaces ==
    << Face_new(0, 1, 8, 0, 7, 3),
       Face_new(0, 4, 5, 1, 18, 2),
       Face_new(0, 5, 10, 2, 21, 4),
       Face_new(0, 8, 4, 3, 19, 1),
       Face_new(0, 10, 1, 4, 8, 0),
       Face_new(1, 6, 8, 5, 24, 7),
       Face_new(1, 7, 6, 6, 23, 5),
       Face_new(1, 10, 7, 8, 26, 6),
       Face_new(2, 3, 11, 9, 17, 13),
       Face_new(2, 4, 9, 10, 20, 12),
       Face_new(2, 5, 4, 11, 18, 10),
       Face_new(2, 9, 3, 12, 16, 9),
       Face_new(2, 11, 5, 13, 22, 11),
       Face_new(3, 6, 7, 14, 23, 15),
       Face_new(3, 7, 11, 15, 27, 17),
       Face_new(3, 9, 6, 16, 25, 14),
       Face_new(4, 8, 9, 19, 28, 20),
       Face_new(5, 11, 10, 22, 29, 21),
       Face_new(6, 9, 8, 25, 28, 24),
       Face_new(7, 10, 11, 26, 29, 27) >>

make_icosahedron == link_adjacency(IcoVertices, IcoEdges, IcoFaces)

EPSILON_INV == 100000    \* EPSILON = 0.00001 = 1 / EPSILON_INV

\* mutant: only identical coordinates are almost equal
almost_eq_exact(unit, a, b) == a = b

\* (a - b).abs() < EPSILON for f32 values held as multiples of 1 / unit,
\* i.e. |a - b| / unit < 1 / EPSILON_INV
almost_eq_in(unit, a, b) == Abs(a - b) * EPSILON_INV < unit

almost_eq(a, b) == almost_eq_in(Scale, a, b)

\* impl PartialOrd for VecWrapper, for coordinates held as multiples of 1 / unit
VecWrapper_cmp_in(unit, self, other) ==
    IF ~almost_eq_in(unit, self[1], other[1])
    THEN (IF self[1] < other[1] THEN "Less" ELSE "Greater")
    ELSE IF ~almost_eq_in(unit, self[2], other[2])
    THEN (IF self[2] < other[2] THEN "Less" ELSE "Greater")
    ELSE IF ~almost_eq_in(unit, self[3], other[3])
    THEN (IF self[3] < other[3] THEN "Less" ELSE "Greater")
    ELSE "Equal"

VecWrapper_cmp(self, other) == VecWrapper_cmp_in(Scale, self, other)

\* derived Ord of the (uint, uint) edge key: lexicographic
Tuple_cmp(self, other) ==
    IF self[1] # other[1] THEN (IF self[1] < other[1] THEN "Less" ELSE "Greater")
    ELSE IF self[2] # other[2] THEN (IF self[2] < other[2] THEN "Less" ELSE "Greater")
    ELSE "Equal"

\* T: Ord of get_or_create: VecWrapper keys have 3 components, edge keys 2
Ord_cmp(self, other) ==
    IF Len(self) = 3 THEN VecWrapper_cmp(self, other) ELSE Tuple_cmp(self, other)

\* TreeMap<T, uint>: entries [key, val] kept in key order; a lookup descends
\* by comparisons only, as the search tree does
RECURSIVE TreeMap_search(_, _, _, _)
TreeMap_search(map, key, lo, hi) ==
    IF lo > hi THEN [found |-> FALSE, at |-> lo]
    ELSE LET mid == (lo + hi) \div 2
             c == Ord_cmp(key, map[mid].key)
         IN  IF c = "Equal" THEN [found |-> TRUE, at |-> mid]
             ELSE IF c = "Less" THEN TreeMap_search(map, key, lo, mid - 1)
             ELSE TreeMap_search(map, key, mid + 1, hi)

TreeMap_insert(map, at, key, val) ==
    SubSeq(map, 1, at - 1) \o <<[key |-> key, val |-> val]>> \o SubSeq(map, at, Len(map))

\* mutant: a key that is found is inserted again under a new index
get_or_create_always(map, val) ==
    LET r == TreeMap_search(map, val, 1, Len(map)) IN
    [idx |-> Len(map), map |-> TreeMap_insert(map, r.at, val, Len(map))]

\* returns the index and the map after the call
get_or_create(map, val) ==
    LET r == TreeMap_search(map, val, 1, Len(map)) IN
    IF r.found THEN [idx |-> map[r.at].val, map |-> map]
    ELSE [idx |-> Len(map), map |-> TreeMap_insert(map, r.at, val, Len(map))]

\* get_or_create for each key of `keys` in order; idx collects the results
RECURSIVE get_or_create_all(_, _, _, _)
get_or_create_all(map, keys, j, idxs) ==
    IF j > Len(keys) THEN [idx |-> idxs, map |-> map]
    ELSE LET r == get_or_create(map, keys[j]) IN
         IF Done(r.map) THEN get_or_create_all(r.map, keys, j + 1, Append(idxs, r.idx))
         ELSE r

\* mutant: the pair is not put in order
ordered_as_given(a, b) == <<a, b>>

ordered(a, b) == IF a < b THEN <<a, b>> ELSE <<b, a>>

\* the six positions refine looks up for a face: v1, v2, v3, v12, v23, v31
face_positions(v1, v2, v3) ==
    <<v1, v2, v3, normalize(add(v1, v2)), normalize(add(v2, v3)), normalize(add(v3, v1))>>

\* the nine edge keys of a face, in the order of the get_or_create calls; the
\* first six are ordered pairs, the three inner ones are not
face_edge_keys(v1_idx, v2_idx, v3_idx, v12_idx, v23_idx, v31_idx) ==
    << ordered(v1_idx, v12_idx), ordered(v12_idx, v2_idx),
       ordered(v2_idx, v23_idx), ordered(v23_idx, v3_idx),
       ordered(v3_idx, v31_idx), ordered(v31_idx, v1_idx),
       <<v12_idx, v31_idx>>, <<v12_idx, v23_idx>>, <<v23_idx, v31_idx>> >>

\* mutant: the centre face is given the corner face's edge e1_12 instead of e12_31
child_faces_wrong_edge(v, e) ==
    << Face_new(v[1], v[4], v[6], e[1], e[7], e[6]),
       Face_new(v[4], v[2], v[5], e[2], e[3], e[8]),
       Face_new(v[5], v[3], v[6], e[4], e[5], e[9]),
       Face_new(v[4], v[5], v[6], e[8], e[9], e[1]) >>

\* mutant: the centre child lists its corners in the opposite rotation
child_faces_centre_reversed(v, e) ==
    << Face_new(v[1], v[4], v[6], e[1], e[7], e[6]),
       Face_new(v[4], v[2], v[5], e[2], e[3], e[8]),
       Face_new(v[5], v[3], v[6], e[4], e[5], e[9]),
       Face_new(v[4], v[6], v[5], e[7], e[9], e[8]) >>

\* the four ret.faces.push calls; v = <<v1_idx, v2_idx, v3_idx, v12_idx, v23_idx,
\* v31_idx>>, e = <<e1_12_idx, e12_2_idx, e2_23_idx, e23_3_idx, e3_31_idx,
\* e31_1_idx, e12_31_idx, e12_23_idx, e23_31_idx>>
child_faces(v, e) ==
    << Face_new(v[1], v[4], v[6], e[1], e[7], e[6]),
       Face_new(v[4], v[2], v[5], e[2], e[3], e[8]),
       Face_new(v[5], v[3], v[6], e[4], e[5], e[9]),
       Face_new(v[4], v[5], v[6], e[8], e[9], e[7]) >>

\* the second half of the loop body: vr = the result of the six vertex lookups
refine_face_edges(acc, vr) ==
    LET er == get_or_create_all(acc.edges,
                  face_edge_keys(vr.idx[1], vr.idx[2], vr.idx[3],
                                 vr.idx[4], vr.idx[5], vr.idx[6]),
                  1, <<>>)
    IN  [faces |-> acc.faces \o child_faces(vr.idx, er.idx),
         verts |-> vr.map,
         edges |-> er.map]

\* one iteration of refine's loop over poly.faces; acc = [faces, verts, edges]
refine_face(acc, p, face) ==
    refine_face_edges(acc,
        get_or_create_all(acc.verts,
            face_positions(At(p.vertices, face.vertex_indices[1]).pos,
                           At(p.vertices, face.vertex_indices[2]).pos,
                           At(p.vertices, face.vertex_indices[3]).pos),
            1, <<>>))

\* for (vert, &idx) in verts.iter(): ret.vertices[idx] = PolyVertex::from_vec(&vert.vec)
RECURSIVE fill_vertices(_, _, _, _)
fill_vertices(vertices, verts, lo, hi) ==
    IF hi < lo THEN vertices
    ELSE IF hi = lo
         THEN [vertices EXCEPT ![verts[lo].val + 1] = PolyVertex_from_vec(verts[lo].key)]
    ELSE LET mid == (lo + hi) \div 2
             first == fill_vertices(vertices, verts, lo, mid)
         IN  IF Done(first) THEN fill_vertices(first, verts, mid + 1, hi) ELSE vertices

\* for (&(a, b), &idx) in edges.iter(): ret.edges[idx] = Edge::new(a, b)
RECURSIVE fill_edges(_, _, _, _)
fill_edges(edges, emap, lo, hi) ==
    IF hi < lo THEN edges
    ELSE IF hi = lo
         THEN [edges EXCEPT ![emap[lo].val + 1] = Edge_new(emap[lo].key[1], emap[lo].key[2])]
    ELSE LET mid == (lo + hi) \div 2
             first == fill_edges(edges, emap, lo, mid)
         IN  IF Done(first) THEN fill_edges(first, emap, mid + 1, hi) ELSE edges

\* Vec::grow on an empty vector: n copies of value
grow(n, value) == [i \in 1..n |-> value] \o <<>>

\* the part of refine after the loop over faces
refine_finish(acc) ==
    link_adjacency(fill_vertices(grow(Len(acc.verts), PolyVertex_new),
                                 acc.verts, 1, Len(acc.verts)),
                   fill_edges(grow(Len(acc.edges), Edge_new(-1, -1)),
                              acc.edges, 1, Len(acc.edges)),
                   acc.faces)

refine_start == [faces |-> <<>>, verts |-> <<>>, edges |-> <<>>]

\* for &face in poly.faces.iter(), faces lo .. hi-1 in order
RECURSIVE refine_loop(_, _, _, _)
refine_loop(acc, poly, lo, hi) ==
    IF hi <= lo THEN acc
    ELSE IF hi = lo + 1 THEN refine_face(acc, poly, At(poly.faces, lo))
    ELSE LET mid == (lo + hi) \div 2
             first == refine_loop(acc, poly, lo, mid)
         IN  IF Done(first.faces) THEN refine_loop(first, poly, mid, hi) ELSE acc

refine(poly) == refine_finish(refine_loop(refine_start, poly, 0, Len(poly.faces)))

RECURSIVE make_sphere(_)
make_sphere(detail_level) ==
    IF detail_level = 0 THEN make_icosahedron ELSE refine(make_sphere(detail_level - 1))

\* ------------------------------------------------------ plate_simulation.rs
\* the decimal literal num/den as an f32
Dec(num, den) == RDiv(num * Scale, den)

rad(s) == s

PlatePoint_new(pos, nbr_indices) == [pos |-> pos, nbr_indices |-> nbr_indices, speed |-> rad(Scale)]

Plate_new(vertex_indices, move_axis, move_speed, height) ==
    [vertex_indices |-> vertex_indices, move_axis |-> move_axis,
     move_speed |-> move_speed, height |-> height]

\* Rng::gen_range for f32: low + (high - low) * u, u the generator's next value of [0, 1)
gen_range_f32(u, low, high) == low + FMul(high - low, u)

\* us: the generator's next three values
random_axis(us) ==
    normalize(Vector3(gen_range_f32(us[1], Dec(1, 10000), Scale),
                      gen_range_f32(us[2], Dec(1, 10000), Scale),
                      gen_range_f32(us[3], Dec(1, 10000), Scale)))

HEIGHT_DEV == Dec(2, 100)

\* us: the generator's next five values, consumed in the order axis, speed, height
Plate_from_points(us, vertex_indices) ==
    Plate_new(vertex_indices,
              random_axis(us),
              rad(gen_range_f32(us[4], Dec(1, 100), Dec(1, 10))),
              gen_range_f32(us[5], Scale - HEIGHT_DEV, Scale + HEIGHT_DEV))

get_nbr_idx(edge, vert_idx) ==
    IF edge.vertex_indices[1] = vert_idx THEN edge.vertex_indices[2]
    ELSE edge.vertex_indices[1]

\* mutant: a neighbour is claimed whether or not it already has a plate
RECURSIVE assign_neighbors_unchecked(_, _, _, _)
assign_neighbors_unchecked(fill, plate_idx, nbr_indices, j) ==
    IF j > Len(nbr_indices) THEN fill
    ELSE The({assign_neighbors_unchecked(next, plate_idx, nbr_indices, j + 1) :
              next \in {LET nbr_idx == nbr_indices[j] IN
                        [plate_id_for_verts |->
                             [fill.plate_id_for_verts EXCEPT ![nbr_idx + 1] = plate_idx],
                         plate_points |->
                             [fill.plate_points EXCEPT ![plate_idx + 1] = Append(@, nbr_idx)],
                         new_frontier |-> Append(fill.new_frontier, nbr_idx),
                         num_assigned |-> fill.num_assigned + 1]}})

\* mutant: the claimed neighbour is pushed to plate 0's list instead of plate_idx's
RECURSIVE assign_neighbors_to_first(_, _, _, _)
assign_neighbors_to_first(fill, plate_idx, nbr_indices, j) ==
    IF j > Len(nbr_indices) THEN fill
    ELSE The({assign_neighbors_to_first(next, plate_idx, nbr_indices, j + 1) :
              next \in {LET nbr_idx == nbr_indices[j] IN
                        IF At(fill.plate_id_for_verts, nbr_idx) = -1
                        THEN [plate_id_for_verts |->
                                  [fill.plate_id_for_verts EXCEPT ![nbr_idx + 1] = plate_idx],
                              plate_points |->
                                  [fill.plate_points EXCEPT ![1] = Append(@, nbr_idx)],
                              new_frontier |-> Append(fill.new_frontier, nbr_idx),
                              num_assigned |-> fill.num_assigned + 1]
                        ELSE fill}})

\* fill = [plate_id_for_verts, plate_points, new_frontier, num_assigned]: the
\* three vectors assign_neighbors mutates and its counter; neighbours j.. in order
RECURSIVE assign_neighbors(_, _, _, _)
assign_neighbors(fill, plate_idx, nbr_indices, j) ==
    IF j > Len(nbr_indices) THEN fill
    ELSE The({assign_neighbors(next, plate_idx, nbr_indices, j + 1) :
              next \in {LET nbr_idx == nbr_indices[j] IN
                        IF At(fill.plate_id_for_verts, nbr_idx) = -1
                        THEN [plate_id_for_verts |->
                                  [fill.plate_id_for_verts EXCEPT ![nbr_idx + 1] = plate_idx],
                              plate_points |->
                                  [fill.plate_points EXCEPT ![plate_idx + 1] = Append(@, nbr_idx)],
                              new_frontier |-> Append(fill.new_frontier, nbr_idx),
                              num_assigned |-> fill.num_assigned + 1]
                        ELSE fill}})

\* for &point_idx in frontier_points[plate_idx].iter(), points lo .. hi of the
\* frontier (1-based positions), each adding its count to num_assigned
RECURSIVE flood_plate(_, _, _, _, _, _)
flood_plate(fill, pverts, plate_idx, frontier, lo, hi) ==
    IF hi < lo THEN fill
    ELSE IF hi = lo
         THEN The({assign_neighbors(fill, plate_idx, nbrs, 1) :
                   nbrs \in {At(pverts, frontier[lo]).nbr_indices}})
    ELSE The({flood_plate(first, pverts, plate_idx, frontier, mid + 1, hi) :
              <<mid, first>> \in
                  {<<m, flood_plate(fill, pverts, plate_idx, frontier, lo, m)>> :
                      m \in {(lo + hi) \div 2}}})

\* the body of flood_fill's for loop for one plate_idx;
\* st = [plate_id_for_verts, plate_points, frontier_points, filled_points]
flood_one_plate(st, pverts, plate_idx) ==
    The({[plate_id_for_verts |-> fill.plate_id_for_verts,
          plate_points |-> fill.plate_points,
          frontier_points |-> [st.frontier_points EXCEPT ![plate_idx + 1] = fill.new_frontier],
          filled_points |-> st.filled_points + fill.num_assigned] :
         fill \in {flood_plate([plate_id_for_verts |-> st.plate_id_for_verts,
                                plate_points |-> st.plate_points,
                                new_frontier |-> <<>>,
                                num_assigned |-> 0],
                               pverts, plate_idx, At(st.frontier_points, plate_idx),
                               1, Len(At(st.frontier_points, plate_idx)))}})

\* mutant: the plates of a round are visited from the highest index down
RECURSIVE flood_plates_descending(_, _, _, _)
flood_plates_descending(st, pverts, lo, hi) ==
    IF hi <= lo THEN st
    ELSE IF hi = lo + 1 THEN flood_one_plate(st, pverts, lo)
    ELSE The({flood_plates_descending(first, pverts, lo, mid) :
              <<mid, first>> \in
                  {<<m, flood_plates_descending(st, pverts, m, hi)>> :
                      m \in {(lo + hi) \div 2}}})

\* for plate_idx in range(lo, hi)
RECURSIVE flood_plates(_, _, _, _)
flood_plates(st, pverts, lo, hi) ==
    IF hi <= lo THEN st
    ELSE IF hi = lo + 1 THEN flood_one_plate(st, pverts, lo)
    ELSE The({flood_plates(first, pverts, mid, hi) :
              <<mid, first>> \in
                  {<<m, flood_plates(st, pverts, lo, m)>> : m \in {(lo + hi) \div 2}}})

\* one iteration of flood_fill's while loop
\* mutant: one iteration of the while loop visits the plates twice
flood_fill_round_twice(st, pverts) ==
    The({flood_plates(first, pverts, 0, Len(st.plate_points)) :
         first \in {flood_plates(st, pverts, 0, Len(st.plate_points))}})

flood_fill_round(st, pverts) == flood_plates(st, pverts, 0, Len(st.plate_points))

get_edge_length(p) ==
    LET edge == At(p.edges, 0)
        v0 == At(p.vertices, edge.vertex_indices[1])
        v1 == At(p.vertices, edge.vertex_indices[2])
    IN  length(sub(v0.pos, v1.pos))

\* the loop of PlateSimulation::new that builds verts
make_plate_points(p) ==
    [i \in 1..Len(p.vertices) |->
        PlatePoint_new(p.vertices[i].pos,
                       [j \in 1..Len(p.vertices[i].edge_indices) |->
                           get_nbr_idx(At(p.edges, p.vertices[i].edge_indices[j]), i - 1)]
                       \o <<>>)] \o <<>>

\* mutant: the loop leaves every speed as PlatePoint::new set it
speed_after_new_default(pverts, pl, vert_idx) == At(pverts, vert_idx).speed

\* plate.move_speed of the plate that lists vert_idx last, as the loop
\* `for plate in plates.iter() { for &vert_idx ... verts[vert_idx].speed = ... }` leaves it
speed_after_new(pverts, pl, vert_idx) ==
    LET owners == {q \in 1..Len(pl) :
                      \E j \in 1..Len(pl[q].vertex_indices) : pl[q].vertex_indices[j] = vert_idx}
    IN  IF owners = {} THEN At(pverts, vert_idx).speed
        ELSE pl[CHOOSE q \in owners : \A r \in owners : r <= q].move_speed

\* ----------------------------------------------------------------- camera.rs
DEFAULT_CAMERA_DISTANCE == 5 * Scale

CAMERA_EPSILON == Dec(1, 100000)

MIN_CAMERA_DISTANCE == Dec(11, 10)

PI_2 == Dec(62832, 10000)

FRAC_PI_2 == Dec(15708, 10000)

CameraRotationFlags ==
    {"CAMERA_UP", "CAMERA_DOWN", "CAMERA_LEFT", "CAMERA_RIGHT", "CAMERA_ZOOM_IN",
     "CAMERA_ZOOM_OUT"}

Actions == {"Press", "Release", "Repeat"}

\* f32::exp: halved until the series 1 + x + x^2/2 + x^3/6 + x^4/24 is accurate,
\* then squared back
RECURSIVE exp(_)
exp(x) ==
    IF x < -12 * Scale THEN 0
    ELSE IF Abs(x) <= Scale \div 2
    THEN The({Scale + x + RDiv(x2, 2) + RDiv(FMul(x2, x), 6) + RDiv(FMul(x2, x2), 24) :
              x2 \in {FMul(x, x)}})
    ELSE The({FMul(h, h) : h \in {exp(RDiv(x, 2))}})

\* the % of f32: the remainder has the sign of the dividend
frem(a, b) == Sign(a) * (Abs(a) % b)

Min(a, b) == IF a <= b THEN a ELSE b

\* `flag as f32`
as_f32(flag) == IF flag THEN Scale ELSE 0

\* mutant: angle_y is not held below the upper bound
clamp_angle_y_unbounded(y) == Max(y, -FRAC_PI_2 + CAMERA_EPSILON)

\* .min(FRAC_PI_2 - EPSILON).max(-FRAC_PI_2 + EPSILON)
clamp_angle_y(y) == Max(Min(y, FRAC_PI_2 - CAMERA_EPSILON), -FRAC_PI_2 + CAMERA_EPSILON)

\* .max(MIN_CAMERA_DISTANCE)
clamp_distance(d) == Max(d, MIN_CAMERA_DISTANCE)

Camera_new ==
    [angle_xz |-> 0, angle_y |-> 0, distance |-> DEFAULT_CAMERA_DISTANCE, rotate |-> {}]

\* Camera::update: the camera afterwards
Camera_update(self, delta) ==
    The({[angle_xz |-> frem(self.angle_xz + FMul(delta, dir_xz), PI_2),
          angle_y |-> clamp_angle_y(self.angle_y + FMul(delta, dir_y)),
          distance |-> clamp_distance(self.distance + dir_zoom),
          rotate |-> self.rotate] :
         <<dir_xz, dir_y, dir_zoom>> \in
            {<<FMul(as_f32("CAMERA_LEFT" \in self.rotate) - as_f32("CAMERA_RIGHT" \in self.rotate),
                    rotate_speed),
               FMul(as_f32("CAMERA_UP" \in self.rotate) - as_f32("CAMERA_DOWN" \in self.rotate),
                    rotate_speed),
               FMul(as_f32("CAMERA_ZOOM_OUT" \in self.rotate)
                        - as_f32("CAMERA_ZOOM_IN" \in self.rotate),
                    zoom_speed)>> :
                <<zoom_speed, rotate_speed>> \in
                    {<<FDiv(Scale, Scale + exp(-RDiv(self.distance, 3) + 4 * Scale)),
                       Dec(25, 100)
                           + FDiv(3 * Scale,
                                  Scale + exp(-RDiv(self.distance, 3) + 3 * Scale))>>}}})

\* mutant: a repeated key sets the flag like a pressed one
handle_key_action_repeat_sets(flags, dir, action) ==
    IF action \in {"Press", "Repeat"} THEN flags \cup {dir}
    ELSE IF action = "Release" THEN flags \ {dir}
    ELSE flags

\* Camera::handle_key_action: self.rotate afterwards
handle_key_action(flags, dir, action) ==
    IF action = "Press" THEN flags \cup {dir}
    ELSE IF action = "Release" THEN flags \ {dir}
    ELSE flags

\* ------------------------------------------------------------------- main.rs
Keys == {"Escape", "A", "D", "W", "S", "Space"}

\* GameState::handle_event: the direction a key stands for
key_direction(key) ==
    IF key = "A" THEN "CAMERA_LEFT"
    ELSE IF key = "D" THEN "CAMERA_RIGHT"
    ELSE IF key = "W" THEN "CAMERA_UP"
    ELSE "CAMERA_DOWN"

UPDATE_STEP == Dec(1, 30)

\* mutant: a step empties the accumulator
accumulator_emptied(acc) == 0

\* self.update_accumulator -= UPDATE_STEP
accumulator_after_step(acc) == acc - UPDATE_STEP

\* ---------------------------------------------------------------- cmdline.rs
\* get_block: the indices of data it reads
get_block_reads(block_index) == {block_index * 4 + k : k \in 0..3}

\* murmur_tail: the indices of tail it reads
murmur_tail_reads(tail_len) == {k \in 0..14 : tail_len >= k + 1}

\* `let tail = text[num_blocks..]`: the index of text where the tail begins
tail_start(num_blocks) == num_blocks

\* mixed after the bytes at the (0-based) indices in reads went into a key
mix(counts, reads) == [i \in 1..Len(counts) |-> IF (i - 1) \in reads THEN counts[i] + 1 ELSE counts[i]]

\* ------------------------------------------------------------------ world.rs
\* world.rs has its own copies of get_nbr_idx, assign_neighbors (without the
\* new_frontier argument), random_partition's seed loop and World::new's
\* vertex loop; they read as the ones of plate_simulation.rs and are modelled
\* by the same operators.

\* the body of world.rs flood_fill's for loop for one plate_idx:
\* `for point_idx in range(0u, plate_points[plate_idx].len())` hands
\* verts[point_idx].nbr_indices to assign_neighbors; the range is fixed when
\* the loop starts.  st = [plate_id_for_verts, plate_points, filled_points]
World_flood_one_plate(st, pverts, plate_idx) ==
    The({[plate_id_for_verts |-> fill.plate_id_for_verts,
          plate_points |-> fill.plate_points,
          filled_points |-> st.filled_points + fill.num_assigned] :
         fill \in {flood_plate([plate_id_for_verts |-> st.plate_id_for_verts,
                                plate_points |-> st.plate_points,
                                new_frontier |-> <<>>,
                                num_assigned |-> 0],
                               pverts, plate_idx,
                               [k \in 1..Len(At(st.plate_points, plate_idx)) |-> k - 1],
                               1, Len(At(st.plate_points, plate_idx)))}})

\* for plate_idx in range(lo, hi)
RECURSIVE World_flood_plates(_, _, _, _)
World_flood_plates(st, pverts, lo, hi) ==
    IF hi <= lo THEN st
    ELSE The({World_flood_plates(first, pverts, lo + 1, hi) :
              first \in {World_flood_one_plate(st, pverts, lo)}})

\* world.rs Plate::from_points; us: the generator's next five values
World_Plate_from_points(us, vertex_indices) ==
    Plate_new(vertex_indices,
              random_axis(us),
              rad(gen_range_f32(us[4], Dec(1, 100), Dec(1, 10))),
              gen_range_f32(us[5], Dec(8, 10), Dec(12, 10)))

\* ---- simulate_plates_step
\* f32 sin and cos of an angle in radians, by their series up to the fifth power
sin(x) ==
    The({x - RDiv(FMul(x2, x), 6) + RDiv(FMul(FMul(x2, x2), x), 120) : x2 \in {FMul(x, x)}})

cos(x) ==
    The({Scale - RDiv(x2, 2) + RDiv(FMul(x2, x2), 24) : x2 \in {FMul(x, x)}})

\* Rotation3::from_axis_angle: the columns of the rotation matrix
Basis3_from_axis_angle(axis, angle) ==
    The({ << <<FMul(FMul(t, axis[1]), axis[1]) + c,
               FMul(FMul(t, axis[1]), axis[2]) + FMul(sn, axis[3]),
               FMul(FMul(t, axis[1]), axis[3]) - FMul(sn, axis[2])>>,
             <<FMul(FMul(t, axis[1]), axis[2]) - FMul(sn, axis[3]),
               FMul(FMul(t, axis[2]), axis[2]) + c,
               FMul(FMul(t, axis[2]), axis[3]) + FMul(sn, axis[1])>>,
             <<FMul(FMul(t, axis[1]), axis[3]) + FMul(sn, axis[2]),
               FMul(FMul(t, axis[2]), axis[3]) - FMul(sn, axis[1]),
               FMul(FMul(t, axis[3]), axis[3]) + c>> >> :
          <<sn, c, t>> \in {<<sin(angle), cos(angle), Scale - cos(angle)>>}})

\* Basis3::rotate_vector: the matrix times the vector
rotate_vector(rot, v) ==
    <<FMul(rot[1][1], v[1]) + FMul(rot[2][1], v[2]) + FMul(rot[3][1], v[3]),
      FMul(rot[1][2], v[1]) + FMul(rot[2][2], v[2]) + FMul(rot[3][2], v[3]),
      FMul(rot[1][3], v[1]) + FMul(rot[2][3], v[2]) + FMul(rot[3][3], v[3])>>

\* mutant: the moved point loses its neighbour list
move_around_without_nbrs(self, move_axis) ==
    [pos |-> rotate_vector(Basis3_from_axis_angle(move_axis, self.speed), self.pos),
     nbr_indices |-> <<>>,
     speed |-> self.speed]

\* PlatePoint::move_around: the point afterwards
move_around(self, move_axis) ==
    [self EXCEPT !.pos = rotate_vector(Basis3_from_axis_angle(move_axis, self.speed), self.pos)]

\* mutant: every iteration of Plate::simulate moves the plate's first vertex
simulate_idx_first(plate, j) == plate.vertex_indices[1]

\* Plate::simulate: the idx of iteration j of `for &idx in self.vertex_indices.iter()`
simulate_idx(plate, j) == plate.vertex_indices[j + 1]

DOT_THRESHOLD == Dec(1, 2)


\* `for v2 in self.verts.iter() { sum += v.pos.dot(&v2.pos).max(DOT_THRESHOLD) }`
\* over the first j vertices
RECURSIVE closeness_sum(_, _, _)
closeness_sum(pverts, v, j) ==
    IF j = 0 THEN 0
    ELSE The({less + Max(dot(v.pos, pverts[j].pos), DOT_THRESHOLD) :
              less \in {closeness_sum(pverts, v, j - 1)}})

\* the avg_dist of iteration i of the second loop of simulate_plates_step
avg_dist(pverts, i) ==
    RDiv(closeness_sum(pverts, At(pverts, i), Len(pverts)) - Len(pverts) * DOT_THRESHOLD,
         Len(pverts))

\* the closure speed_scale
speed_scale(avg, initial, i) == Scale - FDiv(At(avg, i), initial)

\* time_it!: the elapsed time is not under the program's control
TimeClasses == {"within_limit", "over_limit", "over_3x_limit"}

\* ----------------------------------------------------------- collisions.rs
\* f32 values that are not numbers of the fixed-point scale: the infinities and
\* NaN that a division by zero produces
PInf == 536870912
NInf == -PInf
NaN == 2 * PInf

IsNaN(a) == a = NaN
IsInf(a) == a = PInf \/ a = NInf

\* a < b and a > b of f32: false when either side is NaN
XLt(a, b) == ~IsNaN(a) /\ ~IsNaN(b) /\ a < b
XGt(a, b) == ~IsNaN(a) /\ ~IsNaN(b) /\ a > b

XNeg(a) == IF IsNaN(a) THEN NaN ELSE -a

XAdd(a, b) ==
    IF IsNaN(a) \/ IsNaN(b) THEN NaN
    ELSE IF IsInf(a) THEN (IF IsInf(b) /\ a # b THEN NaN ELSE a)
    ELSE IF IsInf(b) THEN b
    ELSE a + b

\* the product of two finite values, the larger one split at the scale so that
\* no intermediate leaves 32 bits
WideMul(small, big) ==
    small * (big \div Scale) + RDiv(small * (big % Scale), Scale)

XMul(a, b) ==
    IF IsNaN(a) \/ IsNaN(b) THEN NaN
    ELSE IF IsInf(a) \/ IsInf(b)
         THEN (IF a = 0 \/ b = 0 THEN NaN ELSE Sign(a) * Sign(b) * PInf)
    ELSE IF Abs(a) <= Abs(b) THEN Sign(a) * Sign(b) * WideMul(Abs(a), Abs(b))
    ELSE Sign(a) * Sign(b) * WideMul(Abs(b), Abs(a))

\* a / b of f32; zsign is the sign of b when b is a zero
XDiv(a, b, zsign) ==
    IF IsNaN(a) \/ IsNaN(b) THEN NaN
    ELSE IF IsInf(a) THEN (IF IsInf(b) THEN NaN
                           ELSE IF b = 0 THEN Sign(a) * zsign * PInf
                           ELSE Sign(a) * Sign(b) * PInf)
    ELSE IF IsInf(b) THEN 0
    ELSE IF b = 0 THEN (IF a = 0 THEN NaN ELSE Sign(a) * zsign * PInf)
    ELSE FDiv(a, b)

xadd(a, b) == <<XAdd(a[1], b[1]), XAdd(a[2], b[2]), XAdd(a[3], b[3])>>
xdot(a, b) == XAdd(XAdd(XMul(a[1], b[1]), XMul(a[2], b[2])), XMul(a[3], b[3]))
xmul_s(a, s) == <<XMul(a[1], s), XMul(a[2], s), XMul(a[3], s)>>

\* normalize of a finite vector whose length may be zero (a square root is +0)
xnormalize(a) ==
    The({<<XDiv(v[1], l, 1), XDiv(v[2], l, 1), XDiv(v[3], l, 1)>> :
         <<v, l>> \in {<<a, length(a)>>}})

None == <<>>
Some(x) == <<x>>

Plane_normal(v1, v2, v3, e21, e32, e13) ==
    xnormalize(Vector3(FMul(v1[2], e32[3]) + FMul(v2[2], e13[3]) + FMul(v3[2], e21[3]),
                       FMul(v1[3], e32[1]) + FMul(v2[3], e13[1]) + FMul(v3[3], e21[1]),
                       FMul(v1[1], e32[2]) + FMul(v2[1], e13[2]) + FMul(v3[1], e21[2])))

Plane_d(v1, v2, v3) ==
    -(FMul(v1[1], FMul(v2[2], v3[3]) - FMul(v3[2], v2[3])) +
      FMul(v2[1], FMul(v3[2], v1[3]) - FMul(v1[2], v3[3])) +
      FMul(v3[1], FMul(v1[2], v2[3]) - FMul(v2[2], v1[3])))

Plane_from_points(v1, v2, v3) ==
    [normal |-> Plane_normal(v1, v2, v3, sub(v1, v2), sub(v2, v3), sub(v3, v1)),
     d |-> Plane_d(v1, v2, v3)]

\* the pair (point, t) as <<point, t>>
intersection_point(self, r, zsign) ==
    The({<<xadd(r.orig, xmul_s(r.dir, t)), t>> :
         t \in {XDiv(XNeg(XAdd(xdot(r.orig, self.normal), self.d)),
                     xdot(r.dir, self.normal), zsign)}})

get_plane_side(self, point) ==
    The({IF XLt(dist, 0) THEN "Above" ELSE IF XGt(dist, 0) THEN "Below" ELSE "On" :
         dist \in {XNeg(xdot(point, self.normal))}})

Ray_towards_center(orig) == [orig |-> orig, dir |-> xnormalize(neg(orig))]

\* verts: the three corner positions; zsign: the sign of a zero denominator
intersection_dist(self, verts, zsign) ==
    The({IF /\ get_plane_side(Plane_from_points(self.orig, verts[1], verts[2]), hit[1]) # "Below"
            /\ get_plane_side(Plane_from_points(self.orig, verts[2], verts[3]), hit[1]) # "Below"
            /\ get_plane_side(Plane_from_points(self.orig, verts[3], verts[1]), hit[1]) # "Below"
         THEN Some(hit[2])
         ELSE None :
         hit \in {intersection_point(Plane_from_points(verts[1], verts[2], verts[3]),
                                     self, zsign)}})

\* the three corner positions handed to intersection_dist for face i
face_corners(p, i) ==
    <<At(p.vertices, At(p.faces, i).vertex_indices[1]).pos,
      At(p.vertices, At(p.faces, i).vertex_indices[2]).pos,
      At(p.vertices, At(p.faces, i).vertex_indices[3]).pos>>

\* mutant: the first passing face is kept whatever comes later
match_dist_keep_first(near, i, dist) ==
    IF dist = None THEN near
    ELSE IF near = None THEN Some(<<i, dist[1]>>)
    ELSE near

\* the `match dist` of intersecting_triangle_id's loop: nearest after face i
match_dist(near, i, dist) ==
    IF dist = None THEN near
    ELSE IF near = None THEN Some(<<i, dist[1]>>)
    ELSE IF XGt(near[1][2], dist[1]) THEN Some(<<i, dist[1]>>)
    ELSE near

\* ================================================================== state
VARIABLES
    pc,                 \* position of the running call
    detail_level,       \* make_sphere's argument
    pass,               \* iterations of make_sphere's loop completed
    sphere,             \* make_sphere's `sphere`
    poly,               \* the `poly` argument of refine / PlateSimulation::new
    ret,                \* refine's locals: ret.faces and the TreeMaps verts, edges
    face_i,             \* position of refine's loop in poly.faces
    num_plates,         \* PlateSimulation::new's argument
    rng,                \* the generator: [ints, n, used]
    verts,              \* Vec<PlatePoint>
    plate_id_for_verts, \* random_partition's local
    plate_points,       \* random_partition's local
    frontier_points,    \* flood_fill's local
    filled_points,      \* flood_fill's local
    plate_idx,          \* random_partition's seed loop counter
    plates,             \* Vec<Plate>
    initial_distance,   \* PlateSimulation.initial_distance
    eye,                \* the point handed to Ray::towards_center
    ray,                \* the `ray` argument of intersecting_triangle_id
    pick_i,             \* intersecting_triangle_id's loop counter i
    dists,              \* the `dist` of every iteration so far
    nearest,            \* intersecting_triangle_id's local
    selected_id,        \* the value intersecting_triangle_id returned
    steps,              \* simulate_plates's argument
    step_i,             \* iterations of simulate_plates's loop completed
    sim_plate,          \* simulate_plates_step: position of `for plate in self.plates.iter()`
    sim_vert,           \* Plate::simulate: position of `for &idx in self.vertex_indices.iter()`
    sim_i,              \* simulate_plates_step: the loop counter i of the two later loops
    avg_distances,      \* simulate_plates_step's local
    before,             \* history: self.verts when the running step was entered
    rotated,            \* history: the axes move_around got for each vertex in the running step
    fill_round,         \* history: iterations of flood_fill's while loop that claimed a vertex
    cmp_keys,           \* three VecWrapper keys
    cmp_result,         \* the Orderings cmp returned for the pairs (a, b), (b, c), (a, c)
    rotate,             \* Camera.rotate: the set of flags
    angle_xz,           \* Camera.angle_xz
    angle_y,            \* Camera.angle_y
    distance,           \* Camera.distance
    should_close,       \* the window's should_close flag
    update_accumulator, \* GameState.update_accumulator
    dt,                 \* the dt argument of the last GameState::update or Camera::update
    update_steps,       \* history: calls of Camera::update so far
    dt_sum,             \* history: sum of the dt given to GameState::update so far
    pressed,            \* history: the directions whose last Press or Release was a Press
    text,               \* murmur_hash3's argument
    block_i,            \* murmur_hash3: the counter of the block loop
    mixed               \* history: how often each byte of text went into the hash

sphereVars == <<detail_level, pass, sphere, ret, face_i>>

plateVars == <<num_plates, rng, verts, plate_id_for_verts, plate_points, frontier_points,
               filled_points, plate_idx, plates, initial_distance, fill_round>>

pickVars == <<eye, ray, pick_i, dists, nearest, selected_id>>

simVars == <<steps, step_i, sim_plate, sim_vert, sim_i, avg_distances, before, rotated>>

cmpVars == <<cmp_keys, cmp_result>>

cameraVars == <<rotate, angle_xz, angle_y, distance, should_close, pressed>>

gameVars == <<update_accumulator, dt, update_steps, dt_sum>>

hashVars == <<text, block_i, mixed>>

restVars == <<cmpVars, cameraVars, gameVars, hashVars>>

vars == <<pc, poly, sphereVars, plateVars, pickVars, simVars, restVars>>

SphereIdle ==
    /\ detail_level = 0
    /\ pass = 0
    /\ sphere = Polyhedron_new
    /\ ret = refine_start
    /\ face_i = 0

PlatesIdle ==
    /\ num_plates = 0
    /\ rng = [ints |-> "any", n |-> 0, used |-> FALSE]
    /\ verts = <<>>
    /\ plate_id_for_verts = <<>>
    /\ plate_points = <<>>
    /\ frontier_points = <<>>
    /\ filled_points = 0
    /\ plate_idx = 0
    /\ plates = <<>>
    /\ initial_distance = 0
    /\ fill_round = 0

PickIdle ==
    /\ eye = <<0, 0, 0>>
    /\ ray = [orig |-> <<0, 0, 0>>, dir |-> <<0, 0, 0>>]
    /\ pick_i = 0
    /\ dists = <<>>
    /\ nearest = None
    /\ selected_id = None

SimIdle ==
    /\ steps = 0
    /\ step_i = 0
    /\ sim_plate = 0
    /\ sim_vert = 0
    /\ sim_i = 0
    /\ avg_distances = <<>>
    /\ before = <<>>
    /\ rotated = <<>>

CmpIdle ==
    /\ cmp_keys = <<>>
    /\ cmp_result = <<>>

CameraIdle ==
    /\ rotate = {}
    /\ angle_xz = 0
    /\ angle_y = 0
    /\ distance = 0
    /\ should_close = FALSE
    /\ pressed = <<>>

GameIdle ==
    /\ update_accumulator = 0
    /\ dt = 0
    /\ update_steps = 0
    /\ dt_sum = 0

HashIdle ==
    /\ text = <<>>
    /\ block_i = 0
    /\ mixed = <<>>

RestIdle == CmpIdle /\ CameraIdle /\ GameIdle /\ HashIdle

\* ====================================================== make_sphere, stepwise
SphereInit ==
    /\ pc = "make_sphere"
    /\ detail_level \in 0..MaxDetail
    /\ pass = 0
    /\ sphere = Polyhedron_new
    /\ poly = Polyhedron_new
    /\ ret = refine_start
    /\ face_i = 0
    /\ PlatesIdle
    /\ PickIdle
    /\ SimIdle
    /\ RestIdle

\* let mut sphere = make_icosahedron()
MakeSphereCall ==
    /\ pc = "make_sphere"
    /\ sphere' = make_icosahedron
    /\ pc' = "loop"
    /\ UNCHANGED <<detail_level, pass, poly, ret, face_i, plateVars, pickVars, restVars, simVars>>

\* the loop of make_sphere calls refine(&sphere); refine creates its locals
RefineCall ==
    /\ pc = "loop"
    /\ pass < detail_level
    /\ poly' = sphere
    /\ ret' = refine_start
    /\ face_i' = 0
    /\ pc' = "refine"
    /\ UNCHANGED <<detail_level, pass, sphere, plateVars, pickVars, restVars, simVars>>

\* one iteration of `for &face in poly.faces.iter()`
RefineFace ==
    /\ pc = "refine"
    /\ face_i < Len(poly.faces)
    /\ ret' = refine_face(ret, poly, At(poly.faces, face_i))
    /\ face_i' = face_i + 1
    /\ UNCHANGED <<pc, detail_level, pass, sphere, poly, plateVars, pickVars, restVars, simVars>>

\* the rest of refine, and the assignment sphere = refine(&sphere)
RefineReturn ==
    /\ pc = "refine"
    /\ face_i = Len(poly.faces)
    /\ sphere' = refine_finish(ret)
    /\ pass' = pass + 1
    /\ pc' = "loop"
    /\ UNCHANGED <<detail_level, poly, ret, face_i, plateVars, pickVars, restVars, simVars>>

MakeSphereReturn ==
    /\ pc = "loop"
    /\ pass = detail_level
    /\ pc' = "returned"
    /\ UNCHANGED <<detail_level, pass, sphere, poly, ret, face_i, plateVars, pickVars, restVars, simVars>>

SphereNext ==
    \/ MakeSphereCall
    \/ RefineCall
    \/ RefineFace
    \/ RefineReturn
    \/ MakeSphereReturn

SpecSphere == SphereInit /\ [][SphereNext]_vars

\* ============================================= PlateSimulation::new, stepwise
RECURSIVE Pow4(_)
Pow4(k) == IF k = 0 THEN 1 ELSE 4 * Pow4(k - 1)

VertexCount(k) == 10 * Pow4(k) + 2
FaceCount(k) == 20 * Pow4(k)

\* number of sequences of n draws out of v values, counted up to MaxSeedings + 1
RECURSIVE Seedings(_, _)
Seedings(v, n) ==
    IF n = 0 THEN 1
    ELSE LET less == Seedings(v, n - 1) IN
         IF less > MaxSeedings THEN MaxSeedings + 1 ELSE v * less

\* The inputs of PlateSimulation::new.  With a generator whose uint draws are
\* free ("any") the plate counts are those with at most MaxSeedings seed
\* sequences; with the generator that counts 0, 1, 2, ... ("counter") they are
\* the counts around the vertex count and the face count of the mesh, and 1000.
PlateInputs ==
    {i \in [detail : 0..PlateDetail, num_plates : 0..4, ints : {"any"}] :
        Seedings(VertexCount(i.detail), i.num_plates) <= MaxSeedings}
    \cup
    UNION {{[detail |-> k, num_plates |-> n, ints |-> "counter"] :
              n \in {VertexCount(k) - 1, VertexCount(k), VertexCount(k) + 1,
                     FaceCount(k), FaceCount(k) + 1, 1000}} : k \in 0..PlateDetail}

\* values of [0, 1) the generator yields for f32 draws, repeated in a cycle
F32Patterns ==
    { <<Scale \div 2>>,
      <<Scale \div 4, (3 * Scale) \div 4>>,
      <<(3 * Scale) \div 4, Scale \div 2, Scale \div 4>> }

F32Streams(len) ==
    {[i \in 1..len |-> pat[((i - 1) % Len(pat)) + 1]] : pat \in F32Patterns}

\* the draws of the generator "cycle", repeated for ever: a vertex of the
\* icosahedron, then the five neighbours of the vertex opposite to vertex 0
SeedCycle == <<1, 2, 6, 7, 9, 11, 0, 3, 4, 5, 8, 10>>

\* Rng::gen_range(low, high) for uint: the values the next draw can have
gen_range_uint(r, low, high) ==
    IF r.ints = "any" THEN low..(high - 1)
    ELSE IF r.ints = "counter" THEN {low + (r.n % (high - low))}
    ELSE {low + (SeedCycle[(r.n % Len(SeedCycle)) + 1] % (high - low))}

\* the generator after a uint draw from a range of `width` values
rng_after_uint(r, width) ==
    [ints |-> r.ints, n |-> IF r.ints = "any" THEN 0 ELSE (r.n + 1) % width, used |-> TRUE]

PlatesInitOn(inputs) ==
    /\ pc = "new"
    /\ \E i \in inputs :
          /\ poly = make_sphere(i.detail)
          /\ num_plates = i.num_plates
          /\ rng = [ints |-> i.ints, n |-> 0, used |-> FALSE]
    /\ SphereIdle
    /\ PickIdle
    /\ SimIdle
    /\ RestIdle
    /\ verts = <<>>
    /\ plate_id_for_verts = <<>>
    /\ plate_points = <<>>
    /\ frontier_points = <<>>
    /\ filled_points = 0
    /\ plate_idx = 0
    /\ plates = <<>>
    /\ initial_distance = 0
    /\ fill_round = 0

\* mutant: the guard is off by one
too_many_plates_off_by_one(p, n) == Len(p.faces) + 1 < n

PlatesInit == PlatesInitOn(PlateInputs)

\* the guard of PlateSimulation::new: poly.faces.len() < num_plates
too_many_plates(p, n) == Len(p.faces) < n

\* PlateSimulation::new up to the call of random_partition, and random_partition's
\* two local vectors
New ==
    /\ pc = "new"
    /\ IF too_many_plates(poly, num_plates)
       THEN /\ pc' = "panic"
            /\ UNCHANGED <<verts, plate_id_for_verts>>
       ELSE /\ pc' = "seed"
            /\ verts' = make_plate_points(poly)
            /\ plate_id_for_verts' = grow(Len(poly.vertices), -1)
    /\ UNCHANGED <<poly, sphereVars, pickVars, restVars, simVars, num_plates, fill_round, rng, plate_points, frontier_points,
                   filled_points, plate_idx, plates, initial_distance>>

\* one iteration of the `loop` that looks for the origin of plate plate_idx
SeedDraw ==
    /\ pc = "seed"
    /\ plate_idx < num_plates
    /\ \E idx \in gen_range_uint(rng, 0, Len(verts)) :
          /\ rng' = rng_after_uint(rng, Len(verts))
          /\ IF At(plate_id_for_verts, idx) = -1
             THEN /\ plate_id_for_verts' = [plate_id_for_verts EXCEPT ![idx + 1] = plate_idx]
                  /\ plate_points' = Append(plate_points, <<idx>>)
                  /\ plate_idx' = plate_idx + 1
             ELSE UNCHANGED <<plate_id_for_verts, plate_points, plate_idx>>
    /\ UNCHANGED <<pc, poly, sphereVars, pickVars, restVars, simVars, num_plates, fill_round, verts, frontier_points, filled_points,
                   plates, initial_distance>>

\* the call of flood_fill and its two locals
FloodFillCall ==
    /\ pc = "seed"
    /\ plate_idx >= num_plates
    /\ filled_points' = Len(plate_points)
    /\ frontier_points' = plate_points
    /\ fill_round' = 0
    /\ pc' = "flood"
    /\ UNCHANGED <<poly, sphereVars, pickVars, restVars, simVars, num_plates, rng, verts, plate_id_for_verts, plate_points,
                   plate_idx, plates, initial_distance>>

\* one iteration of `while filled_points < verts.len()`
FloodRound ==
    /\ pc = "flood"
    /\ filled_points < Len(verts)
    /\ \E st \in {flood_fill_round([plate_id_for_verts |-> plate_id_for_verts,
                                     plate_points |-> plate_points,
                                     frontier_points |-> frontier_points,
                                     filled_points |-> filled_points], verts)} :
           /\ plate_id_for_verts' = st.plate_id_for_verts
           /\ plate_points' = st.plate_points
           /\ frontier_points' = st.frontier_points
           /\ filled_points' = st.filled_points
           /\ fill_round' = IF st.filled_points > filled_points THEN fill_round + 1
                            ELSE fill_round
    /\ UNCHANGED <<pc, poly, sphereVars, pickVars, restVars, simVars, num_plates, rng, verts, plate_idx, plates,
                   initial_distance>>

\* flood_fill returns into time_it!("flood fill", 5.0, ..), which panics when the
\* call took more than three times the limit
FloodFillReturn ==
    /\ pc = "flood"
    /\ filled_points >= Len(verts)
    /\ \E elapsed \in TimeClasses :
          pc' = IF elapsed = "over_3x_limit" THEN "panic_time" ELSE "plates"
    /\ UNCHANGED <<poly, sphereVars, pickVars, restVars, simVars, plateVars>>

\* plate_points.iter().map(|points| Plate::from_points(rng, points.clone())).collect()
MakePlates ==
    /\ pc = "plates"
    /\ \E us \in F32Streams(5 * Len(plate_points)) :
          plates' = [q \in 1..Len(plate_points) |->
                        Plate_from_points(SubSeq(us, 5 * q - 4, 5 * q), plate_points[q])] \o <<>>
    /\ rng' = [rng EXCEPT !.used = @ \/ Len(plate_points) > 0]
    /\ pc' = "speeds"
    /\ UNCHANGED <<poly, sphereVars, pickVars, restVars, simVars, num_plates, fill_round, verts, plate_id_for_verts, plate_points,
                   frontier_points, filled_points, plate_idx, initial_distance>>

\* the loop that copies plate.move_speed to the plate's vertices, and the
\* construction of the returned PlateSimulation
NewReturn ==
    /\ pc = "speeds"
    /\ verts' = [i \in 1..Len(verts) |->
                    [verts[i] EXCEPT !.speed = speed_after_new(verts, plates, i - 1)]] \o <<>>
    /\ initial_distance' = get_edge_length(poly)
    /\ pc' = "ready"
    /\ UNCHANGED <<poly, sphereVars, pickVars, restVars, simVars, num_plates, fill_round, rng, plate_id_for_verts, plate_points,
                   frontier_points, filled_points, plate_idx, plates>>

PlatesNext ==
    \/ New
    \/ SeedDraw
    \/ FloodFillCall
    \/ FloodRound
    \/ FloodFillReturn
    \/ MakePlates
    \/ NewReturn

SpecPlates == PlatesInit /\ [][PlatesNext]_vars

\* a sequential program takes its next step; the generator does not withhold
\* an index for ever
FairPlateInputs == {i \in PlateInputs : i.ints = "counter" \/ i.num_plates <= 1}

FairSpecPlates ==
    PlatesInitOn(FairPlateInputs) /\ [][PlatesNext]_vars /\ WF_vars(PlatesNext)

\* ================================================== simulate_plates, stepwise
\* PlateSimulation::new on the meshes and plate counts the simulation is run on
SimInputs == [detail : 0..SimDetail, num_plates : 1..MaxSimPlates, ints : {"counter"}]

SimInit == PlatesInitOn(SimInputs)

\* the call simulate_plates(steps) on the simulation PlateSimulation::new returned
SimulateCall ==
    /\ pc = "ready"
    /\ steps' \in 0..MaxSteps
    /\ step_i' = 0
    /\ pc' = "sim_loop"
    /\ UNCHANGED <<poly, sphereVars, plateVars, pickVars, restVars, sim_plate, sim_vert, sim_i,
                   avg_distances, before, rotated>>

\* an iteration of `for _ in range(0u, steps)` enters simulate_plates_step
StepCall ==
    /\ pc = "sim_loop"
    /\ step_i < steps
    /\ sim_plate' = 0
    /\ sim_vert' = 0
    /\ sim_i' = 0
    /\ avg_distances' = <<>>
    /\ before' = verts
    /\ rotated' = [v \in 1..Len(verts) |-> <<>>] \o <<>>
    /\ pc' = "rotate"
    /\ UNCHANGED <<poly, sphereVars, plateVars, pickVars, restVars, steps, step_i>>

\* one iteration of the loop of Plate::simulate, for the plate the outer loop is at
Rotate ==
    /\ pc = "rotate"
    /\ sim_plate < Len(plates)
    /\ \E plate \in {At(plates, sim_plate)} :
          /\ \E idx \in {simulate_idx(plate, sim_vert)} :
                /\ verts' = [verts EXCEPT ![idx + 1] = move_around(@, plate.move_axis)]
                /\ rotated' = [rotated EXCEPT ![idx + 1] = Append(@, plate.move_axis)]
          /\ IF sim_vert + 1 < Len(plate.vertex_indices)
             THEN sim_vert' = sim_vert + 1 /\ sim_plate' = sim_plate
             ELSE sim_vert' = 0 /\ sim_plate' = sim_plate + 1
    /\ UNCHANGED <<pc, poly, sphereVars, pickVars, restVars, num_plates, fill_round, rng, plate_id_for_verts,
                   plate_points, frontier_points, filled_points, plate_idx, plates,
                   initial_distance, steps, step_i, sim_i, avg_distances, before>>

\* let mut avg_distances = Vec::with_capacity(self.verts.len())
RotateDone ==
    /\ pc = "rotate"
    /\ sim_plate = Len(plates)
    /\ avg_distances' = <<>>
    /\ sim_i' = 0
    /\ pc' = "closeness"
    /\ UNCHANGED <<poly, sphereVars, plateVars, pickVars, restVars, steps, step_i, sim_plate, sim_vert,
                   before, rotated>>

\* one iteration of the loop that pushes avg_dist
Closeness ==
    /\ pc = "closeness"
    /\ sim_i < Len(verts)
    /\ avg_distances' = Append(avg_distances, avg_dist(verts, sim_i))
    /\ sim_i' = sim_i + 1
    /\ UNCHANGED <<pc, poly, sphereVars, plateVars, pickVars, restVars, steps, step_i, sim_plate,
                   sim_vert, before, rotated>>

ClosenessDone ==
    /\ pc = "closeness"
    /\ sim_i = Len(verts)
    /\ sim_i' = 0
    /\ pc' = "damp"
    /\ UNCHANGED <<poly, sphereVars, plateVars, pickVars, restVars, steps, step_i, sim_plate, sim_vert,
                   avg_distances, before, rotated>>

\* one iteration of `self.verts[i].speed.s *= speed_scale(i)`
Damp ==
    /\ pc = "damp"
    /\ sim_i < Len(verts)
    /\ verts' = [verts EXCEPT ![sim_i + 1].speed =
                    FMul(@, speed_scale(avg_distances, initial_distance, sim_i))]
    /\ sim_i' = sim_i + 1
    /\ UNCHANGED <<pc, poly, sphereVars, pickVars, restVars, num_plates, fill_round, rng, plate_id_for_verts,
                   plate_points, frontier_points, filled_points, plate_idx, plates,
                   initial_distance, steps, step_i, sim_plate, sim_vert, avg_distances,
                   before, rotated>>

\* simulate_plates_step returns into time_it!("step", 1.0f64, ..), which panics
\* when the step took more than three times the limit
StepReturn ==
    /\ pc = "damp"
    /\ sim_i = Len(verts)
    /\ \E elapsed \in TimeClasses :
          IF elapsed = "over_3x_limit"
          THEN pc' = "panic_step" /\ step_i' = step_i
          ELSE pc' = "sim_loop" /\ step_i' = step_i + 1
    /\ UNCHANGED <<poly, sphereVars, plateVars, pickVars, restVars, steps, sim_plate, sim_vert, sim_i,
                   avg_distances, before, rotated>>

SimulateReturn ==
    /\ pc = "sim_loop"
    /\ step_i = steps
    /\ pc' = "simulated"
    /\ UNCHANGED <<poly, sphereVars, plateVars, pickVars, restVars, simVars>>

SimNext ==
    \/ SimulateCall
    \/ StepCall
    \/ Rotate
    \/ RotateDone
    \/ Closeness
    \/ ClosenessDone
    \/ Damp
    \/ StepReturn
    \/ SimulateReturn

SpecSim == SimInit /\ [][PlatesNext \/ SimNext]_vars

\* ======================================================= World::new, stepwise
\* World::new up to the seed loop of random_partition is New and SeedDraw.

\* the call of world.rs flood_fill and its local
WorldFloodFillCall ==
    /\ pc = "seed"
    /\ plate_idx >= num_plates
    /\ filled_points' = Len(plate_points)
    /\ pc' = "world_flood"
    /\ UNCHANGED <<poly, sphereVars, pickVars, restVars, simVars, num_plates, fill_round, rng,
                   verts, plate_id_for_verts, plate_points, frontier_points, plate_idx,
                   plates, initial_distance>>

\* one iteration of `while filled_points < verts.len()` of world.rs
WorldFloodRound ==
    /\ pc = "world_flood"
    /\ filled_points < Len(verts)
    /\ \E st \in {World_flood_plates([plate_id_for_verts |-> plate_id_for_verts,
                                       plate_points |-> plate_points,
                                       filled_points |-> filled_points],
                                      verts, 0, Len(plate_points))} :
           /\ plate_id_for_verts' = st.plate_id_for_verts
           /\ plate_points' = st.plate_points
           /\ filled_points' = st.filled_points
    /\ UNCHANGED <<pc, poly, sphereVars, pickVars, restVars, simVars, num_plates, fill_round,
                   rng, verts, frontier_points, plate_idx, plates, initial_distance>>

\* flood_fill returns; plate_points.iter().map(|points| Plate::from_points(..)).collect()
WorldMakePlates ==
    /\ pc = "world_flood"
    /\ filled_points >= Len(verts)
    /\ \E us \in F32Streams(5 * Len(plate_points)) :
          plates' = [q \in 1..Len(plate_points) |->
                        World_Plate_from_points(SubSeq(us, 5 * q - 4, 5 * q),
                                                plate_points[q])] \o <<>>
    /\ rng' = [rng EXCEPT !.used = @ \/ Len(plate_points) > 0]
    /\ pc' = "world_speeds"
    /\ UNCHANGED <<poly, sphereVars, pickVars, restVars, simVars, num_plates, fill_round,
                   verts, plate_id_for_verts, plate_points, frontier_points, filled_points,
                   plate_idx, initial_distance>>

\* the loop that copies plate.move_speed, and the construction of the World
WorldNewReturn ==
    /\ pc = "world_speeds"
    /\ verts' = [i \in 1..Len(verts) |->
                    [verts[i] EXCEPT !.speed = speed_after_new(verts, plates, i - 1)]] \o <<>>
    /\ pc' = "world_ready"
    /\ UNCHANGED <<poly, sphereVars, pickVars, restVars, simVars, num_plates, fill_round,
                   rng, plate_id_for_verts, plate_points, frontier_points, filled_points,
                   plate_idx, plates, initial_distance>>

WorldNext ==
    \/ New
    \/ SeedDraw
    \/ WorldFloodFillCall
    \/ WorldFloodRound
    \/ WorldMakePlates
    \/ WorldNewReturn

\* World::new is also run with six plates on the icosahedron and the seeds of SeedCycle
WorldInputs == PlateInputs \cup {[detail |-> 0, num_plates |-> 6, ints |-> "cycle"]}

SpecWorld == PlatesInitOn(WorldInputs) /\ [][WorldNext]_vars

\* ================================================== VecWrapper::cmp on its own
\* keys whose coordinates lie a few millionths apart
FineKeys ==
    {<<x * FineStep, y * FineStep, 0>> : x \in 0..MaxFineSteps, y \in 0..MaxFineSteps}

CmpInit ==
    /\ pc = "cmp"
    /\ cmp_keys \in FineKeys \X FineKeys \X FineKeys
    /\ cmp_result = <<>>
    /\ poly = Polyhedron_new
    /\ SphereIdle
    /\ PlatesIdle
    /\ PickIdle
    /\ SimIdle
    /\ CameraIdle
    /\ GameIdle
    /\ HashIdle

\* a.cmp(&b), b.cmp(&c) and a.cmp(&c)
Compare ==
    /\ pc = "cmp"
    /\ cmp_result' = <<VecWrapper_cmp_in(FineUnit, cmp_keys[1], cmp_keys[2]),
                       VecWrapper_cmp_in(FineUnit, cmp_keys[2], cmp_keys[3]),
                       VecWrapper_cmp_in(FineUnit, cmp_keys[1], cmp_keys[3])>>
    /\ pc' = "compared"
    /\ UNCHANGED <<poly, sphereVars, plateVars, pickVars, simVars, cmp_keys, cameraVars,
                   gameVars, hashVars>>

SpecCmp == CmpInit /\ [][Compare]_vars

\* ================================================= the camera and its key events
\* the camera and the accumulator as GameState::new leaves them; pressed records, for
\* each direction, the last Press or Release handled for it
GameStateNew ==
    /\ rotate = Camera_new.rotate
    /\ angle_xz = Camera_new.angle_xz
    /\ angle_y = Camera_new.angle_y
    /\ distance = Camera_new.distance
    /\ should_close = FALSE
    /\ pressed = [dir \in CameraRotationFlags |-> "none"]
    /\ update_accumulator = 0
    /\ dt = 0
    /\ update_steps = 0
    /\ dt_sum = 0
    /\ poly = Polyhedron_new
    /\ SphereIdle
    /\ PlatesIdle
    /\ PickIdle
    /\ SimIdle
    /\ CmpIdle
    /\ HashIdle

CameraInit ==
    /\ pc = "camera"
    /\ GameStateNew

\* the step lengths Camera::update is called with
CameraDts == {0, UPDATE_STEP, 2 * Scale}

\* Camera::handle_key_action(dir, action)
CameraHandleKeyAction(dir, action) ==
    /\ rotate' = handle_key_action(rotate, dir, action)
    /\ pressed' = IF action \in {"Press", "Release"}
                  THEN [pressed EXCEPT ![dir] = action]
                  ELSE pressed
    /\ UNCHANGED <<angle_xz, angle_y, distance, should_close>>

\* GameState::handle_event for a key event; the keys are handled before the first
\* update of a run and the flags then stay as they are
HandleEvent ==
    /\ pc = "camera"
    /\ update_steps = 0
    /\ \E key \in Keys, action \in Actions :
          IF key = "Escape"
          THEN /\ should_close' = TRUE
               /\ UNCHANGED <<rotate, angle_xz, angle_y, distance, pressed>>
          ELSE IF key \in {"A", "D", "W", "S"}
          THEN CameraHandleKeyAction(key_direction(key), action)
          ELSE UNCHANGED cameraVars
    /\ UNCHANGED <<pc, poly, sphereVars, plateVars, pickVars, simVars, cmpVars, gameVars,
                   hashVars>>

\* Camera::handle_key_action called with any of the six flags
HandleKeyAction ==
    /\ pc = "camera"
    /\ update_steps = 0
    /\ \E dir \in CameraRotationFlags, action \in Actions : CameraHandleKeyAction(dir, action)
    /\ UNCHANGED <<pc, poly, sphereVars, plateVars, pickVars, simVars, cmpVars, gameVars,
                   hashVars>>

\* GameState::update_step(d): self.camera.update(d); the view matrix and the highlighted
\* triangle it then derives from the camera are rendering state that is not kept here
update_step(d) ==
    /\ \E cam \in {Camera_update([angle_xz |-> angle_xz, angle_y |-> angle_y,
                                  distance |-> distance, rotate |-> rotate], d)} :
          /\ angle_xz' = cam.angle_xz
          /\ angle_y' = cam.angle_y
          /\ distance' = cam.distance
    /\ update_steps' = update_steps + 1
    /\ UNCHANGED <<rotate, should_close, pressed>>

\* update_step with a step length that is the same throughout a run
UpdateStepCall ==
    /\ pc = "camera"
    /\ update_steps < MaxCameraUpdates
    /\ \E d \in IF update_steps = 0 THEN CameraDts ELSE {dt} :
          /\ dt' = d
          /\ update_step(d)
    /\ UNCHANGED <<pc, poly, sphereVars, plateVars, pickVars, simVars, cmpVars,
                   update_accumulator, dt_sum, hashVars>>

CameraNext == HandleEvent \/ HandleKeyAction \/ UpdateStepCall

SpecCamera == CameraInit /\ [][CameraNext]_vars

\* ========================================================= GameState::update
GameInit ==
    /\ pc = "game"
    /\ GameStateNew

\* the frame times GameState::update is called with
FrameDts == {0, Dec(1, 60), UPDATE_STEP, Dec(1, 10)}

\* GameState::update(d) up to the loop
GameUpdate ==
    /\ pc = "game"
    /\ dt_sum < MaxGameTime * Scale
    /\ \E d \in FrameDts :
          /\ dt' = d
          /\ update_accumulator' = update_accumulator + d
          /\ dt_sum' = dt_sum + d
    /\ pc' = "update"
    /\ UNCHANGED <<poly, sphereVars, plateVars, pickVars, simVars, cmpVars, cameraVars,
                   update_steps, hashVars>>

\* one iteration of `while self.update_accumulator > UPDATE_STEP`
UpdateStep ==
    /\ pc = "update"
    /\ update_accumulator > UPDATE_STEP
    /\ update_accumulator' = accumulator_after_step(update_accumulator)
    /\ update_step(UPDATE_STEP)
    /\ UNCHANGED <<pc, poly, sphereVars, plateVars, pickVars, simVars, cmpVars, dt, dt_sum,
                   hashVars>>

\* the loop ends and GameState::update returns
UpdateReturn ==
    /\ pc = "update"
    /\ ~(update_accumulator > UPDATE_STEP)
    /\ pc' = "game"
    /\ UNCHANGED <<poly, sphereVars, plateVars, pickVars, simVars, restVars>>

GameNext == GameUpdate \/ UpdateStep \/ UpdateReturn

SpecGame == GameInit /\ [][GameNext]_vars

\* ============================================================== murmur_hash3
\* the bytes of a seed text given on the command line (none of them is 0)
SeedBytes == {97, 255}

\* murmur_hash3(text, hash) is entered; mixed counts, for each byte of text, how often
\* it went into a key. The 32-bit arithmetic on the keys is not followed.
HashInit ==
    /\ pc = "hash"
    /\ \E n \in 0..MaxTextLen, b \in SeedBytes : text = [i \in 1..n |-> b]
    /\ block_i = 0
    /\ mixed = [i \in 1..Len(text) |-> 0]
    /\ poly = Polyhedron_new
    /\ SphereIdle
    /\ PlatesIdle
    /\ PickIdle
    /\ SimIdle
    /\ CmpIdle
    /\ CameraIdle
    /\ GameIdle

\* one iteration of `for i in range(0u, num_blocks)`
MurmurBlock ==
    /\ pc = "hash"
    /\ block_i < Len(text) \div 16
    /\ mixed' = mix(mixed, UNION {get_block_reads(block_i * 4 + k) : k \in 0..3})
    /\ block_i' = block_i + 1
    /\ UNCHANGED <<pc, poly, sphereVars, plateVars, pickVars, simVars, cmpVars, cameraVars,
                   gameVars, text>>

\* the loop is over: murmur_tail(text[num_blocks..], ..) and the final mixing of the hash
MurmurTail ==
    /\ pc = "hash"
    /\ block_i = Len(text) \div 16
    /\ \E start \in {tail_start(Len(text) \div 16)} :
          mixed' = mix(mixed, {start + k : k \in murmur_tail_reads(Len(text) - start)})
    /\ pc' = "hashed"
    /\ UNCHANGED <<poly, sphereVars, plateVars, pickVars, simVars, cmpVars, cameraVars,
                   gameVars, text, block_i>>

HashNext == MurmurBlock \/ MurmurTail

SpecHash == HashInit /\ [][HashNext]_vars

\* ======================================== intersecting_triangle_id, stepwise
\* the centroid of face f of mesh p
Centroid(p, f) ==
    The({<<RDiv(c[1][1] + c[2][1] + c[3][1], 3),
           RDiv(c[1][2] + c[2][2] + c[3][2], 3),
           RDiv(c[1][3] + c[2][3] + c[3][3], 3)>> : c \in {face_corners(p, f)}})

\* the point m times as far from the centre as face f's centroid of the icosahedron
CentroidEye(f, m) == <<m * Centroid(make_icosahedron, f)[1],
                       m * Centroid(make_icosahedron, f)[2],
                       m * Centroid(make_icosahedron, f)[3]>>

\* The eyes of the rays: in front of every face of the icosahedron, beyond every
\* vertex and every edge midpoint, on the coordinate axes, inside the sphere, at
\* the centre, and on the line that carries edge 0.
PickEyes ==
    {CentroidEye(f, m) : f \in 0..19, m \in 2..MaxEyeScale}
    \cup {add(IcoVertices[v].pos, IcoVertices[v].pos) : v \in 1..12}
    \cup {add(At(IcoVertices, IcoEdges[e].vertex_indices[1]).pos,
              At(IcoVertices, IcoEdges[e].vertex_indices[2]).pos) : e \in 1..30}
    \cup {<<3 * Scale, 0, 0>>, <<0, 3 * Scale, 0>>, <<0, 0, 3 * Scale>>, <<0, 0, -3 * Scale>>}
    \cup {<<RDiv(CentroidEye(f, 1)[1], 2), RDiv(CentroidEye(f, 1)[2], 2),
            RDiv(CentroidEye(f, 1)[3], 2)>> : f \in {0, 7, 19}}
    \cup {<<0, 0, 0>>}
    \cup {sub(add(At(IcoVertices, IcoEdges[1].vertex_indices[2]).pos,
                  At(IcoVertices, IcoEdges[1].vertex_indices[2]).pos),
              At(IcoVertices, IcoEdges[1].vertex_indices[1]).pos)}

\* mesh p with the corners of every face listed in the opposite rotation
Rewound(p) ==
    [p EXCEPT !.faces =
        [f \in 1..Len(p.faces) |->
            [p.faces[f] EXCEPT !.vertex_indices = <<@[1], @[3], @[2]>>]] \o <<>>]

\* the meshes handed to intersecting_triangle_id: the spheres the program
\* builds, and the icosahedron with its faces wound the other way
PickMeshes == {make_sphere(k) : k \in 0..PickDetail} \cup {Rewound(make_icosahedron)}

PickInit ==
    /\ pc = "eye"
    /\ poly \in PickMeshes
    /\ eye \in PickEyes
    /\ ray = [orig |-> <<0, 0, 0>>, dir |-> <<0, 0, 0>>]
    /\ pick_i = 0
    /\ dists = <<>>
    /\ nearest = None
    /\ selected_id = None
    /\ SphereIdle
    /\ PlatesIdle
    /\ SimIdle
    /\ RestIdle

\* let ray = Ray::towards_center(&eye)
TowardsCenter ==
    /\ pc = "eye"
    /\ ray' = Ray_towards_center(eye)
    /\ pc' = "pick"
    /\ UNCHANGED <<poly, sphereVars, plateVars, restVars, simVars, eye, pick_i, dists, nearest, selected_id>>

\* one iteration of `for i in range(0u, poly.faces.len())`; a denominator that is
\* a zero has either sign
PickFace ==
    /\ pc = "pick"
    /\ pick_i < Len(poly.faces)
    /\ \E zsign \in {-1, 1} :
          \E dist \in {intersection_dist(ray, face_corners(poly, pick_i), zsign)} :
              /\ dists' = Append(dists, dist)
              /\ nearest' = match_dist(nearest, pick_i, dist)
    /\ pick_i' = pick_i + 1
    /\ UNCHANGED <<pc, poly, sphereVars, plateVars, restVars, simVars, eye, ray, selected_id>>

\* the final `match nearest`
PickReturn ==
    /\ pc = "pick"
    /\ pick_i = Len(poly.faces)
    /\ selected_id' = IF nearest = None THEN None ELSE Some(nearest[1][1])
    /\ pc' = "picked"
    /\ UNCHANGED <<poly, sphereVars, plateVars, restVars, simVars, eye, ray, pick_i, dists, nearest>>

PickNext ==
    \/ TowardsCenter
    \/ PickFace
    \/ PickReturn

SpecPick == PickInit /\ [][PickNext]_vars

\* a ray built from its two fields, the direction pointing from the centre
\* through orig and beyond
Ray_away_from_center(orig) == [orig |-> orig, dir |-> xnormalize(orig)]

\* the eyes outside the unit sphere
OutsideEyes == {e \in PickEyes : dot(e, e) > Scale}

\* intersecting_triangle_id called with a ray that leaves the sphere behind
PickAwayInit ==
    /\ pc = "pick"
    /\ \E k \in 0..PickDetail : poly = make_sphere(k)
    /\ eye \in OutsideEyes
    /\ ray = Ray_away_from_center(eye)
    /\ pick_i = 0
    /\ dists = <<>>
    /\ nearest = None
    /\ selected_id = None
    /\ SphereIdle
    /\ PlatesIdle
    /\ SimIdle
    /\ RestIdle

PickAwayNext ==
    \/ PickFace
    \/ PickReturn

SpecPickAway == PickAwayInit /\ [][PickAwayNext]_vars

\* ------------------------------------------------------------- claims C1-C3
\* C1: the mesh returned by make_sphere(k) has 20*4^k faces, 30*4^k edges and
\* 10*4^k + 2 vertices, hence V - E + F = 2.
C1_SphereCounts ==
    pc = "returned" =>
        /\ Len(sphere.faces) = 20 * Pow4(detail_level)
        /\ Len(sphere.edges) = 30 * Pow4(detail_level)
        /\ Len(sphere.vertices) = 10 * Pow4(detail_level) + 2
        /\ Len(sphere.vertices) - Len(sphere.edges) + Len(sphere.faces) = 2

C1_Witness == pc = "returned" /\ detail_level = 2 /\ Len(sphere.faces) = 320

\* C2: in the mesh returned by make_sphere(k) every edge lists exactly two
\* face indices, and the two differ.
C2_TwoFacesPerEdge ==
    pc = "returned" =>
        \A e \in 1..Len(sphere.edges) :
            /\ Len(sphere.edges[e].face_indices) = 2
            /\ sphere.edges[e].face_indices[1] # sphere.edges[e].face_indices[2]

C2_Witness == pc = "returned" /\ detail_level = 2 /\ Len(sphere.edges) = 480

\* the three sides of parent face f as refine numbers them: side s joins
\* vertex_indices[s] and vertex_indices[s % 3 + 1]
SideEnds(f, s) == {f.vertex_indices[s], f.vertex_indices[(s % 3) + 1]}

\* children of parent face number i (0-based) in ret.faces, in push order
Child(faces, i, c) == faces[4 * i + c]

\* index of the midpoint vertex refine gave to side s of parent face i
MidOf(faces, i, s) ==
    IF s = 1 THEN Child(faces, i, 1).vertex_indices[2]
    ELSE IF s = 2 THEN Child(faces, i, 2).vertex_indices[3]
    ELSE Child(faces, i, 3).vertex_indices[3]

\* the edge index refine gave to the half of side s of parent face i that
\* touches the parent vertex at position p (p = s or p = s % 3 + 1)
HalfOf(faces, i, s, p) ==
    IF s = 1 THEN (IF p = 1 THEN Child(faces, i, 1).edge_indices[1]
                            ELSE Child(faces, i, 2).edge_indices[1])
    ELSE IF s = 2 THEN (IF p = 2 THEN Child(faces, i, 2).edge_indices[2]
                                 ELSE Child(faces, i, 3).edge_indices[1])
    ELSE (IF p = 3 THEN Child(faces, i, 3).edge_indices[2]
                   ELSE Child(faces, i, 1).edge_indices[3])

SharedSides ==
    {q \in ((0..(Len(poly.faces) - 1)) \X (1..3)) \X ((0..(Len(poly.faces) - 1)) \X (1..3)) :
        /\ q[1][1] < q[2][1]
        /\ SideEnds(At(poly.faces, q[1][1]), q[1][2]) = SideEnds(At(poly.faces, q[2][1]), q[2][2])}

\* C3: after a refine pass, the children of two parent faces that share an edge
\* use one midpoint vertex index and one edge index per half of that edge; no
\* two vertex indices of the output have positions equal within EPSILON and no
\* two edge indices join the same pair of vertices.
C3_RefineDedup ==
    (pc = "loop" /\ pass > 0) =>
        /\ \A q \in SharedSides :
              LET i == q[1][1]
                  s == q[1][2]
                  j == q[2][1]
                  t == q[2][2]
                  f == At(poly.faces, i)
                  g == At(poly.faces, j)
              IN  /\ MidOf(sphere.faces, i, s) = MidOf(sphere.faces, j, t)
                  /\ \A p \in {s, (s % 3) + 1}, r \in {t, (t % 3) + 1} :
                        f.vertex_indices[p] = g.vertex_indices[r] =>
                            HalfOf(sphere.faces, i, s, p) = HalfOf(sphere.faces, j, t, r)
        /\ \A a, b \in 1..Len(sphere.vertices) :
              a < b => VecWrapper_cmp(sphere.vertices[a].pos, sphere.vertices[b].pos) # "Equal"
        /\ \A a, b \in 1..Len(sphere.edges) :
              a < b => {sphere.edges[a].vertex_indices[1], sphere.edges[a].vertex_indices[2]}
                         # {sphere.edges[b].vertex_indices[1], sphere.edges[b].vertex_indices[2]}

C3_Witness ==
    /\ pc = "loop"
    /\ pass = 2
    /\ Cardinality(SharedSides) = 120
    /\ Len(sphere.vertices) = 162

\* ------------------------------------------------------------- claims C4-C8
\* random_partition has returned its plates
PlatesReturned == pc \in {"speeds", "ready"}

\* the places <<plate, position>> of the vertex lists of `pl`
Places(pl) == UNION {{<<q, j>> : j \in 1..Len(pl[q].vertex_indices)} : q \in 1..Len(pl)}

\* the places of `pl` that hold vertex v
PlacesOf(pl, v) == {w \in Places(pl) : pl[w[1]].vertex_indices[w[2]] = v}

\* C4: the plates random_partition returns partition the vertices: every vertex
\* index is listed by exactly one plate, once, and nothing else is listed.
C4_TruePartition ==
    PlatesReturned =>
        /\ Len(plates) = num_plates
        /\ \A v \in 0..(Len(verts) - 1) : Cardinality(PlacesOf(plates, v)) = 1
        /\ \A q \in 1..Len(plates) : \A j \in 1..Len(plates[q].vertex_indices) :
              plates[q].vertex_indices[j] \in 0..(Len(verts) - 1)

C4_Witness ==
    /\ pc = "ready"
    /\ rng.ints = "any"
    /\ Len(plates) = 3
    /\ \A q \in 1..3 : Len(plates[q].vertex_indices) >= 3

\* C5: with num_plates > poly.faces.len(), PlateSimulation::new panics: it goes
\* nowhere but to the panic, no random number is drawn, no partitioning is done
\* and no simulation is built.
C5_TooManyPlatesPanics ==
    num_plates > Len(poly.faces) =>
        /\ pc \in {"new", "panic"}
        /\ ~rng.used
        /\ verts = <<>>
        /\ plate_id_for_verts = <<>>
        /\ plate_points = <<>>
        /\ plates = <<>>
        /\ initial_distance = 0

C5_Witness == pc = "panic" /\ num_plates = 1000 /\ Len(poly.faces) = 20

\* C6: a call of PlateSimulation::new with a positive num_plates that the guard
\* lets through (num_plates <= poly.faces.len()) runs to completion: the seed
\* loop finds its num_plates vertices and the flood fill ends with every vertex
\* claimed.
C6_NewCompletes ==
    (pc = "new" /\ 0 < num_plates /\ num_plates <= Len(poly.faces))
        ~> (pc \in {"plates", "speeds", "ready", "panic_time"}
            /\ \A v \in 1..Len(verts) : plate_id_for_verts[v] # -1)

\* the mesh graph, read from poly.edges: each vertex's set of edge neighbours
EdgeGraph ==
    [u \in 0..(Len(poly.vertices) - 1) |->
        {get_nbr_idx(poly.edges[e], u) :
            e \in {d \in 1..Len(poly.edges) :
                      u \in {poly.edges[d].vertex_indices[1], poly.edges[d].vertex_indices[2]}}}]

\* the vertices of P that paths of graph edges inside P reach from R; F is the
\* part of R found last
RECURSIVE ReachInside(_, _, _, _)
ReachInside(graph, R, F, P) ==
    LET found == ((UNION {graph[u] : u \in F}) \cap P) \ R IN
    IF found = {} THEN R ELSE ReachInside(graph, R \cup found, found, P)

Contiguous(graph, P) ==
    P = {} \/ LET v == CHOOSE v \in P : TRUE IN ReachInside(graph, {v}, {v}, P) = P

VerticesOf(plate) == {plate.vertex_indices[j] : j \in 1..Len(plate.vertex_indices)}

\* C7: every plate random_partition returns is contiguous: any two of its
\* vertices are joined by a path of mesh edges that stays inside the plate.
C7_PlatesContiguous ==
    PlatesReturned =>
        LET graph == EdgeGraph IN
        \A q \in 1..Len(plates) : Contiguous(graph, VerticesOf(plates[q]))

C7_Witness ==
    /\ pc = "ready"
    /\ Len(poly.vertices) = 42
    /\ Len(plates) = 2
    /\ \A q \in 1..2 : Len(plates[q].vertex_indices) >= 10


\* --------------------------------------------------------------- claims C9-C10
\* the faces (1-based positions in dists) whose containment test passed
Passing == {j \in 1..Len(dists) : dists[j] # None}

\* C9: intersecting_triangle_id returns None exactly when no face passes the
\* containment test; otherwise it returns a passing face such that no passing
\* face has a smaller parameter (of either sign), and of the passing faces with
\* that parameter it returns the one with the lowest index.
C9_NearestPassingFace ==
    pc = "picked" =>
        /\ Len(dists) = Len(poly.faces)
        /\ (selected_id = None) <=> (Passing = {})
        /\ Passing # {} =>
              \E r \in Passing :
                  /\ selected_id = Some(r - 1)
                  /\ \A j \in Passing :
                        /\ ~XLt(dists[j][1], dists[r][1])
                        /\ dists[j][1] = dists[r][1] => r <= j

\* a pick that replaced an earlier passing face by a later, nearer one
C9_Witness ==
    /\ pc = "picked"
    /\ selected_id # None
    /\ \E j \in Passing :
          /\ j - 1 < selected_id[1]
          /\ ~IsInf(dists[j][1])
          /\ ~IsInf(dists[selected_id[1] + 1][1])
          /\ XGt(dists[j][1], dists[selected_id[1] + 1][1])

\* C10: on the icosahedron, the ray from a point outside the sphere, straight out
\* from the centre through face f's centroid, towards the centre selects face f.
\* (Every face of make_icosahedron lists its corners clockwise seen from outside,
\* so the three edge planes put the hit point Below and no face passes.)
C10_CentroidRaySelectsFace ==
    (pc = "picked" /\ poly = make_icosahedron) =>
        \A f \in 0..19 : \A m \in 2..MaxEyeScale :
            eye = CentroidEye(f, m) => selected_id = Some(f)

\* -------------------------------------------------------------- claims C11-C20
\* C11: on a mesh of make_sphere, a ray whose origin is outside the sphere and
\* whose direction points away from the centre makes intersecting_triangle_id
\* return None.
C11_AwayRayHitsNothing ==
    (pc = "picked" /\ dot(ray.orig, ray.orig) > Scale /\ ray = Ray_away_from_center(eye)) =>
        selected_id = None

\* the denominator ray.dir . normal of intersection_point for face i
face_denominator(p, r, i) ==
    xdot(r.dir, Plane_from_points(face_corners(p, i)[1], face_corners(p, i)[2],
                                  face_corners(p, i)[3]).normal)

\* C13: a face whose plane is parallel to the ray (dir . normal = 0) is not
\* intersected: intersection_dist gives None for it, and no parameter that is
\* infinite or NaN is produced for any face.
C13_ParallelFaceNotHit ==
    \A j \in 1..Len(dists) :
        /\ face_denominator(poly, ray, j - 1) = 0 => dists[j] = None
        /\ dists[j] # None => ~IsInf(dists[j][1]) /\ ~IsNaN(dists[j][1])

\* the normal Plane::from_points computes from face i's corners in stored order
face_normal(p, i) ==
    Plane_from_points(face_corners(p, i)[1], face_corners(p, i)[2],
                      face_corners(p, i)[3]).normal

\* C14: for every face of the mesh make_sphere returns, the normal that
\* Plane::from_points computes from its corners in stored order points outward:
\* its dot product with each corner's position is positive.
C14_NormalsPointOutward ==
    pc = "returned" =>
        \A i \in 0..(Len(sphere.faces) - 1) : \A c \in 1..3 :
            XGt(xdot(face_normal(sphere, i), face_corners(sphere, i)[c]), 0)

\* face f goes from vertex a to vertex b in its cyclic corner order
Traverses(f, a, b) ==
    \E i \in 1..3 : f.vertex_indices[i] = a /\ f.vertex_indices[(i % 3) + 1] = b

\* C15: in the mesh make_sphere returns, the two faces of every edge go along it
\* in opposite directions, and edge_indices[i] of every face is the edge that
\* joins its vertex_indices[i] and vertex_indices[(i+1) mod 3].
C15_ConsistentWinding ==
    pc = "returned" =>
        /\ \A e \in 1..Len(sphere.edges) :
              \E a, b \in {sphere.edges[e].vertex_indices[1], sphere.edges[e].vertex_indices[2]} :
                  /\ a # b
                  /\ Traverses(At(sphere.faces, sphere.edges[e].face_indices[1]), a, b)
                  /\ ~Traverses(At(sphere.faces, sphere.edges[e].face_indices[1]), b, a)
                  /\ Traverses(At(sphere.faces, sphere.edges[e].face_indices[2]), b, a)
                  /\ ~Traverses(At(sphere.faces, sphere.edges[e].face_indices[2]), a, b)
        /\ \A f \in 1..Len(sphere.faces) : \A i \in 1..3 :
              {At(sphere.edges, sphere.faces[f].edge_indices[i]).vertex_indices[1],
               At(sphere.edges, sphere.faces[f].edge_indices[i]).vertex_indices[2]}
              = {sphere.faces[f].vertex_indices[i], sphere.faces[f].vertex_indices[(i % 3) + 1]}

\* a refined mesh with an inner edge, shared by a corner child and the centre child
C15_Witness ==
    /\ pc = "returned"
    /\ detail_level = 1
    /\ \E e \in 1..Len(sphere.edges) :
          /\ sphere.edges[e].face_indices = <<0, 3>>
          /\ Traverses(At(sphere.faces, 0), sphere.edges[e].vertex_indices[1],
                       sphere.edges[e].vertex_indices[2])
          /\ Traverses(At(sphere.faces, 3), sphere.edges[e].vertex_indices[2],
                       sphere.edges[e].vertex_indices[1])

\* C19: every edge of the mesh make_sphere returns stores its endpoints with the
\* smaller vertex index first.
C19_EdgesCanonical ==
    pc = "returned" =>
        \A e \in 1..Len(sphere.edges) :
            sphere.edges[e].vertex_indices[1] < sphere.edges[e].vertex_indices[2]

\* the 0-based positions i with list[i] = x
Listings(list, x) == {i \in 1..Len(list) : list[i] = x}

\* C20: in the mesh make_sphere returns, vertex v lists edge e exactly when v is
\* an endpoint of e, vertex v lists face f exactly when v is a corner of f, edge e
\* lists face f exactly when e is an edge of f, and no list names an index twice.
C20_AdjacencyConsistent ==
    pc = "returned" =>
        /\ \A v \in 1..Len(sphere.vertices) : \A e \in 1..Len(sphere.edges) :
              Cardinality(Listings(sphere.vertices[v].edge_indices, e - 1))
              = IF Listings(sphere.edges[e].vertex_indices, v - 1) # {} THEN 1 ELSE 0
        /\ \A v \in 1..Len(sphere.vertices) : \A f \in 1..Len(sphere.faces) :
              Cardinality(Listings(sphere.vertices[v].face_indices, f - 1))
              = IF Listings(sphere.faces[f].vertex_indices, v - 1) # {} THEN 1 ELSE 0
        /\ \A e \in 1..Len(sphere.edges) : \A f \in 1..Len(sphere.faces) :
              Cardinality(Listings(sphere.edges[e].face_indices, f - 1))
              = IF Listings(sphere.faces[f].edge_indices, e - 1) # {} THEN 1 ELSE 0

\* a refined mesh whose vertex 0 lists five edges and five faces
C20_Witness ==
    /\ pc = "returned"
    /\ detail_level = 1
    /\ Len(sphere.vertices[1].edge_indices) = 5
    /\ Len(sphere.vertices[1].face_indices) = 5
    /\ Len(sphere.vertices[4].edge_indices) = 6

\* C18: when PlateSimulation::new has returned, the speed of every vertex is the
\* move_speed of the plate that contains it, and none is the 1 radian that
\* PlatePoint::new sets.
C18_SpeedFromOwningPlate ==
    pc = "ready" =>
        \A v \in 0..(Len(verts) - 1) :
            /\ \E q \in 1..Len(plates) :
                  /\ v \in VerticesOf(plates[q])
                  /\ At(verts, v).speed = plates[q].move_speed
            /\ At(verts, v).speed # rad(Scale)

\* a returned simulation with two plates of different speeds
C18_Witness ==
    /\ pc = "ready"
    /\ Len(plates) >= 2
    /\ plates[1].move_speed # plates[2].move_speed
    /\ \E v, w \in 0..(Len(verts) - 1) : At(verts, v).speed # At(verts, w).speed

\* the plates (0-based) whose current frontier has a neighbour of vertex v
FrontiersNear(v) ==
    {q \in 0..(Len(frontier_points) - 1) :
        \E j \in 1..Len(At(frontier_points, q)) :
            \E n \in 1..Len(At(verts, At(frontier_points, q)[j]).nbr_indices) :
                At(verts, At(frontier_points, q)[j]).nbr_indices[n] = v}

\* C16: in a flood-fill round, a vertex that is unclaimed when the round starts
\* and has neighbours in the frontiers of several plates goes to the lowest of
\* those plates; the frontier a plate has after the round is exactly what it
\* claimed in the round, and the first round starts from the seeds.
C16_LowestPlateWins ==
    [][/\ (pc = "flood" /\ pc' = "flood") =>
             /\ \A v \in 0..(Len(verts) - 1) :
                   (At(plate_id_for_verts, v) = -1 /\ FrontiersNear(v) # {}) =>
                       /\ At(plate_id_for_verts', v) \in FrontiersNear(v)
                       /\ \A q \in FrontiersNear(v) : At(plate_id_for_verts', v) <= q
             /\ \A q \in 0..(Len(frontier_points) - 1) :
                   {At(frontier_points', q)[j] : j \in 1..Len(At(frontier_points', q))}
                   = {v \in 0..(Len(verts) - 1) :
                         At(plate_id_for_verts, v) = -1 /\ At(plate_id_for_verts', v) = q}
       /\ (pc = "seed" /\ pc' = "flood") =>
             \A q \in 0..(Len(plate_points) - 1) :
                 /\ Len(At(frontier_points', q)) = 1
                 /\ At(plate_id_for_verts, At(frontier_points', q)[1]) = q
      ]_vars

\* after the first round: a vertex next to the seeds of two plates is in the
\* frontier of the lower one
C16_Witness ==
    /\ pc = "flood"
    /\ \A r \in 1..Len(plate_points) :
          plate_points[r] = <<plate_points[r][1]>> \o frontier_points[r]
    /\ \E q1, q2 \in 1..Len(plate_points) :
          /\ q1 < q2
          /\ \E j \in 1..Len(frontier_points[q1]) :
                /\ \E n \in 1..Len(At(verts, plate_points[q1][1]).nbr_indices) :
                      At(verts, plate_points[q1][1]).nbr_indices[n] = frontier_points[q1][j]
                /\ \E n \in 1..Len(At(verts, plate_points[q2][1]).nbr_indices) :
                      At(verts, plate_points[q2][1]).nbr_indices[n] = frontier_points[q1][j]

\* C12: simulate_plates(steps) runs the step `steps` times one after another and
\* then returns normally; no step is skipped, repeated or aborted.
C12_StepsRunToReturn ==
    /\ pc # "panic_step"
    /\ pc \in {"sim_loop", "rotate", "closeness", "damp", "simulated"} => step_i <= steps
    /\ pc = "simulated" => step_i = steps

\* the plate (1-based) that lists vertex v (0-based)
Owner(v) == CHOOSE q \in 1..Len(plates) : v \in VerticesOf(plates[q])

\* self.verts of the running step once every vertex has been moved about the
\* axis of its plate, computed from the vertices the step was entered with
Moved ==
    [i \in 1..Len(before) |-> move_around(before[i], plates[Owner(i - 1)].move_axis)] \o <<>>

\* C17: in a simulation step every vertex is rotated exactly once, about the
\* axis of the plate that owns it; no closeness value exists before all
\* rotations are done, every closeness value is that of the rotated positions,
\* and no speed is damped before all closeness values exist.
C17_RotateThenClosenessThenDamp ==
    /\ pc = "rotate" =>
          /\ avg_distances = <<>>
          /\ \A v \in 1..Len(verts) :
                /\ Len(rotated[v]) <= 1
                /\ verts[v].speed = before[v].speed
    /\ pc \in {"closeness", "damp"} =>
          /\ \A v \in 1..Len(verts) :
                /\ rotated[v] = <<plates[Owner(v - 1)].move_axis>>
                /\ \A q \in 1..Len(plates) : (v - 1) \in VerticesOf(plates[q]) => q = Owner(v - 1)
                /\ verts[v].pos = Moved[v].pos
          /\ \A j \in 1..Len(avg_distances) : avg_distances[j] = avg_dist(Moved, j - 1)
    /\ pc = "closeness" =>
          /\ Len(avg_distances) = sim_i
          /\ \A v \in 1..Len(verts) : verts[v].speed = before[v].speed
    /\ pc = "damp" =>
          /\ Len(avg_distances) = Len(verts)
          /\ \A v \in 1..Len(verts) :
                verts[v].speed =
                    IF v <= sim_i
                    THEN FMul(before[v].speed,
                              speed_scale(avg_distances, initial_distance, v - 1))
                    ELSE before[v].speed

\* the second step of a simulation of plates with different axes has damped
\* every speed, and the rotations moved a vertex
C17_Witness ==
    /\ pc = "damp"
    /\ step_i = 1
    /\ sim_i = Len(verts)
    /\ Len(plates) >= 2
    /\ plates[1].move_axis # plates[2].move_axis
    /\ \E v \in 1..Len(verts) :
          /\ verts[v].pos # before[v].pos
          /\ verts[v].speed < before[v].speed
          /\ rotated[v] = <<plates[2].move_axis>>

\* -------------------------------------------------------------- claims C21-C30
\* the sum, over the first j vertices other than vertex i (1-based), of
\* dot(pos_i, pos_j) - 0.5 where that is positive
RECURSIVE OthersSum(_, _, _)
OthersSum(pverts, i, j) ==
    IF j = 0 THEN 0
    ELSE The({less + (IF j = i THEN 0
                      ELSE Max(dot(pverts[i].pos, pverts[j].pos) - DOT_THRESHOLD, 0)) :
              less \in {OthersSum(pverts, i, j - 1)}})

\* C21: the closeness a step computes for vertex i is the sum over the other
\* vertices j # i of dot(pos_i, pos_j) - 0.5 where positive, divided by the
\* vertex count, and the speed of i is multiplied by
\* 1 - closeness_i / initial_distance.
C21_ClosenessOfOthers ==
    /\ pc \in {"closeness", "damp"} =>
          \A i \in 1..Len(avg_distances) :
              avg_distances[i] = RDiv(OthersSum(verts, i, Len(verts)), Len(verts))
    /\ pc = "damp" =>
          \A i \in 1..sim_i :
              verts[i].speed =
                  FMul(before[i].speed,
                       Scale - FDiv(RDiv(OthersSum(verts, i, Len(verts)), Len(verts)),
                                    initial_distance))

\* what a step of simulate_plates leaves alone
SimStepKeeps ==
    pc \in {"ready", "sim_loop", "rotate", "closeness", "damp"} =>
        /\ initial_distance' = initial_distance
        /\ plates' = plates
        /\ poly' = poly
        /\ Len(verts') = Len(verts)
        /\ \A v \in 1..Len(verts) : verts'[v].nbr_indices = verts[v].nbr_indices

\* C22: a step of the simulation changes vertex positions and speeds only:
\* initial_distance stays the edge length of the mesh taken by
\* PlateSimulation::new, and the plates, the neighbour lists and the mesh stay
\* as they were after construction.
C22_StepsKeepTheRest ==
    /\ [](pc \in {"ready", "sim_loop", "rotate", "closeness", "damp", "simulated"} =>
             initial_distance = get_edge_length(poly))
    /\ [][SimStepKeeps]_vars

\* two steps have run: a vertex is away from its mesh position, slower than its plate
C22_Witness ==
    /\ pc = "simulated"
    /\ steps = 2
    /\ \E v \in 1..Len(verts) :
          /\ verts[v].pos # poly.vertices[v].pos
          /\ verts[v].speed < plates[Owner(v - 1)].move_speed
          /\ Len(verts[v].nbr_indices) = 5

\* C23: every plate World::new produces is contiguous: any two of its
\* vertices are joined by a path of mesh edges that stays inside the plate.
C23_WorldPlatesContiguous ==
    pc = "world_ready" =>
        LET graph == EdgeGraph IN
        \A q \in 1..Len(plates) : Contiguous(graph, VerticesOf(plates[q]))

\* C24: the ordering of VecWrapper is not transitive: keys a, b, c exist with
\* a equal to b and b equal to c while a is Less than c.  Equal means that
\* every coordinate differs by less than EPSILON, so two keys equal to a third
\* are within 2 * EPSILON of each other and need not be within EPSILON.
C24_EqualIsNotTransitive ==
    pc = "compared" =>
        /\ \A p \in {<<1, 1, 2>>, <<2, 2, 3>>, <<3, 1, 3>>} :
              cmp_result[p[1]] = "Equal" <=>
                  \A k \in 1..3 :
                      Abs(cmp_keys[p[2]][k] - cmp_keys[p[3]][k]) * EPSILON_INV < FineUnit
        /\ (cmp_result[1] = "Equal" /\ cmp_result[2] = "Equal") =>
              /\ \A k \in 1..3 :
                    Abs(cmp_keys[1][k] - cmp_keys[3][k]) * EPSILON_INV < 2 * FineUnit
              /\ cmp_result[3] = "Less" =>
                    \E k \in 1..3 :
                        (cmp_keys[3][k] - cmp_keys[1][k]) * EPSILON_INV >= FineUnit

\* a equal to b, b equal to c, a Less than c
C24_Witness ==
    /\ pc = "compared"
    /\ cmp_result = <<"Equal", "Equal", "Less">>

\* the vertices within r hops of the set S along nbr_indices
RECURSIVE Ball(_, _)
Ball(S, r) ==
    IF r = 0 THEN S
    ELSE The({inner \cup UNION {{At(verts, u).nbr_indices[n] :
                                    n \in 1..Len(At(verts, u).nbr_indices)} : u \in inner} :
              inner \in {Ball(S, r - 1)}})

\* the seed of every plate
Seeds == {plate_points[q][1] : q \in 1..Len(plate_points)}

\* C25: during flood_fill the vertices claimed in round r are those at hop
\* distance exactly r from the nearest seed, each goes to a plate whose own
\* seed is at that distance, and the fill ends after as many claiming rounds
\* as the largest hop distance from a vertex to its nearest seed.
C25_GraphVoronoi ==
    (pc = "flood" /\ Len(plate_points) > 0) =>
        /\ {v \in 0..(Len(verts) - 1) : At(plate_id_for_verts, v) # -1} = Ball(Seeds, fill_round)
        /\ UNION {{At(frontier_points, q)[j] : j \in 1..Len(At(frontier_points, q))} :
                     q \in 0..(Len(frontier_points) - 1)}
           = Ball(Seeds, fill_round) \ (IF fill_round = 0 THEN {} ELSE Ball(Seeds, fill_round - 1))
        /\ \A r \in 0..fill_round :
              \A v \in Ball(Seeds, r) \ (IF r = 0 THEN {} ELSE Ball(Seeds, r - 1)) :
                  v \in Ball({At(plate_points, At(plate_id_for_verts, v))[1]}, r)
        /\ filled_points >= Len(verts) <=> Ball(Seeds, fill_round) = 0..(Len(verts) - 1)
        /\ fill_round > 0 => Ball(Seeds, fill_round - 1) # 0..(Len(verts) - 1)

\* the fill of the 42-vertex mesh by two plates is over after three or more rounds
C25_Witness ==
    /\ pc = "flood"
    /\ Len(verts) = 42
    /\ Len(plate_points) = 2
    /\ filled_points = Len(verts)
    /\ fill_round >= 3
    /\ \A q \in 1..2 : Len(plate_points[q]) >= 10

\* C26: the plane Plane::from_points builds from the three corners of a face
\* (three points not on one line) classifies each of those corners as On.
C26_CornersOnTheirPlane ==
    pc = "returned" =>
        \A i \in 0..(Len(sphere.faces) - 1) :
            \A c \in 1..3 :
                get_plane_side(Plane_from_points(face_corners(sphere, i)[1],
                                                 face_corners(sphere, i)[2],
                                                 face_corners(sphere, i)[3]),
                               face_corners(sphere, i)[c]) = "On"

\* C27: after any key events and updates with dt >= 0 the camera is within its bounds:
\* angle_y lies in [-pi/2 + 1e-5, pi/2 - 1e-5] and the distance is at least 1.1
C27_CameraWithinBounds ==
    update_steps > 0 =>
        /\ angle_y >= -FRAC_PI_2 + CAMERA_EPSILON
        /\ angle_y <= FRAC_PI_2 - CAMERA_EPSILON
        /\ distance >= MIN_CAMERA_DISTANCE

\* an update with CAMERA_UP and CAMERA_ZOOM_IN held has pushed both against their bounds
C27_Witness ==
    /\ pc = "camera"
    /\ {"CAMERA_UP", "CAMERA_ZOOM_IN"} \subseteq rotate
    /\ dt > 0
    /\ angle_y = FRAC_PI_2 - CAMERA_EPSILON
    /\ distance = MIN_CAMERA_DISTANCE

C29_FlagIsLastPressOrRelease ==
    pc = "camera" => \A dir \in CameraRotationFlags : dir \in rotate <=> pressed[dir] = "Press"

\* one direction was last pressed and another one was released after being pressed
C29_Witness ==
    /\ pc = "camera"
    /\ pressed["CAMERA_LEFT"] = "Press"
    /\ pressed["CAMERA_UP"] = "Release"
    /\ rotate = {"CAMERA_LEFT"}

\* C30: murmur_hash3 mixes every byte of the seed text into the hash exactly once, the
\* bytes of the full 16-byte blocks in the block loop and the trailing ones in
\* murmur_tail, whatever the length of the text
C30_EveryByteOnce ==
    pc = "hashed" =>
        /\ \A i \in 1..Len(text) : mixed[i] = 1
        /\ block_i = Len(text) \div 16

====
